---- MODULE Spec2Model ----
(***************************************************************************)
(* Model of the record-format engine of tde-base (library/py/tde/recfmt.py) *)
(* and of the Intel HEX merge driver (host/bin/mergehex.py).                *)
(*                                                                         *)
(* Text is modelled character by character: a line is a sequence of        *)
(* one-character strings, a byte string is a sequence of integers 0..255.  *)
(* Integers are Python integers (unbounded); the inputs of the model keep  *)
(* every address below 2^31 in magnitude.  The alphabet of a line holds    *)
(* the hexadecimal digits, the record markers, the blank, the minus sign   *)
(* and one non-hexadecimal letter; it holds no plus sign, underscore, 'x'  *)
(* or other white space, which Python's int() and strip() also know.       *)
(***************************************************************************)
EXTENDS Integers, Sequences, FiniteSets, TLC

\* ------------------------------------------------------------------------
\* Python helpers
\* ------------------------------------------------------------------------

\* a reference that is None or an integer: None is the empty sequence and
\* the integer v the sequence Some(v), so that None is no integer at all
\* (int() reads negative addresses too); ValueOf gives the integer back
None == <<>>
Some(v) == <<v>>
ValueOf(x) == x[1]

Min(a, b) == IF a < b THEN a ELSE b
Max(a, b) == IF a > b THEN a ELSE b
Abs(a) == IF a < 0 THEN 0 - a ELSE a

RECURSIVE Pow2(_)
Pow2(k) == IF k = 0 THEN 1 ELSE 2 * Pow2(k - 1)

\* x << k, x >> k (arithmetic) and x & (2^k - 1) on Python integers
Shl(x, k) == x * Pow2(k)
Shr(x, k) == x \div Pow2(k)
LowBits(x, k) == x % Pow2(k)

\* s[a:b] of Python, with b possibly negative (counted from the end)
PySlice(s, a, b) ==
    LET n == Len(s)
        lo == IF a < 0 THEN Max(n + a, 0) ELSE Min(a, n)
        hi == IF b < 0 THEN Max(n + b, 0) ELSE Min(b, n)
    IN IF lo >= hi THEN <<>> ELSE SubSeq(s, lo + 1, hi)

\* s[a:] of Python
PyFrom(s, a) == PySlice(s, a, Len(s))

HexUpper == <<"0", "1", "2", "3", "4", "5", "6", "7", "8", "9",
              "A", "B", "C", "D", "E", "F">>
HexLower == <<"0", "1", "2", "3", "4", "5", "6", "7", "8", "9",
              "a", "b", "c", "d", "e", "f">>

\* the characters a line can hold besides the hexadecimal digits
OtherChars == {":", "S", "s", "q", "Q", "@", " ", "-", "G"}

\* value of each character as a hexadecimal digit (either case), -1 when it
\* is none
HexTable ==
    [c \in {HexUpper[i] : i \in 1..16} \cup {HexLower[i] : i \in 1..16} \cup OtherChars |->
        IF \E i \in 1..16 : HexUpper[i] = c
        THEN (CHOOSE i \in 1..16 : HexUpper[i] = c) - 1
        ELSE IF \E i \in 1..16 : HexLower[i] = c
             THEN (CHOOSE i \in 1..16 : HexLower[i] = c) - 1
             ELSE -1]

HexVal(c) == HexTable[c]

IsHex(s) == \A i \in 1..Len(s) : HexVal(s[i]) >= 0

RECURSIVE DigitsVal(_, _)
DigitsVal(s, radix) ==
    IF Len(s) = 0 THEN 0
    ELSE DigitsVal(SubSeq(s, 1, Len(s) - 1), radix) * radix + HexVal(s[Len(s)])

\* str.strip(): the blanks at both ends removed
RECURSIVE lstrip(_)
lstrip(s) == IF Len(s) > 0 /\ s[1] = " " THEN lstrip(Tail(s)) ELSE s

RECURSIVE rstrip(_)
rstrip(s) ==
    IF Len(s) > 0 /\ s[Len(s)] = " " THEN rstrip(SubSeq(s, 1, Len(s) - 1)) ELSE s

strip(s) == lstrip(rstrip(s))

\* the digits of int(): [ok, v], v the value of d in the radix; ok is FALSE
\* (ValueError) when d is empty or holds anything but digits of the radix
Digits(d, radix) ==
    IF Len(d) > 0 /\ \A i \in 1..Len(d) : HexVal(d[i]) \in 0..(radix - 1)
    THEN [ok |-> TRUE, v |-> DigitsVal(d, radix)]
    ELSE [ok |-> FALSE, v |-> 0]

\* int() on a text without blanks around it: a leading minus sign negates
\* the number that follows
Signed(t, radix) ==
    IF Len(t) > 0 /\ t[1] = "-"
    THEN [ok |-> Digits(Tail(t), radix).ok, v |-> 0 - Digits(Tail(t), radix).v]
    ELSE Digits(t, radix)

\* int(s, radix): [ok, v].  The blanks around the number are dropped, a
\* leading minus sign negates it, and what is left must be one digit or
\* more of the radix; anything else raises ValueError (ok is FALSE)
PyInt(s, radix) == Signed(strip(s), radix)

\* int(s, 16) and int(s)
int16(s) == PyInt(s, 16)
int10(s) == PyInt(s, 10)

\* binascii.unhexlify: [ok, bytes]; an odd length or a non-hexadecimal
\* character raises binascii.Error
unhexlify(s) ==
    IF Len(s) % 2 = 0 /\ IsHex(s)
    THEN [ok |-> TRUE,
          bytes |-> [i \in 1..(Len(s) \div 2) |->
                        16 * HexVal(s[2 * i - 1]) + HexVal(s[2 * i])]]
    ELSE [ok |-> FALSE, bytes |-> <<>>]

\* binascii.hexlify: two lower-case digits per byte
hexlify(bytes) ==
    [i \in 1..(2 * Len(bytes)) |->
        LET b == bytes[(i + 1) \div 2]
        IN IF i % 2 = 1 THEN HexLower[(b \div 16) + 1] ELSE HexLower[(b % 16) + 1]]

RECURSIVE HexDigitsOf(_, _)
HexDigitsOf(n, digits) ==
    IF n < 16 THEN <<digits[n + 1]>>
    ELSE HexDigitsOf(n \div 16, digits) \o <<digits[(n % 16) + 1]>>

RECURSIVE ZeroPad(_, _)
ZeroPad(s, width) == IF Len(s) >= width THEN s ELSE ZeroPad(<<"0">> \o s, width)

\* '%0<width>x' % n and '%0<width>X' % n: at least width characters, never
\* truncated; a negative number prints its sign first
FmtHex(n, width, digits) ==
    IF n >= 0 THEN ZeroPad(HexDigitsOf(n, digits), width)
    ELSE <<"-">> \o ZeroPad(HexDigitsOf(0 - n, digits), width - 1)

\* str.upper() on the characters a line can hold
UpperTable ==
    [c \in DOMAIN HexTable |->
        IF \E i \in 11..16 : HexLower[i] = c
        THEN HexUpper[CHOOSE i \in 11..16 : HexLower[i] = c]
        ELSE IF c = "s" THEN "S" ELSE IF c = "q" THEN "Q" ELSE c]

UpperChar(c) == UpperTable[c]

upper(s) == [i \in 1..Len(s) |-> UpperChar(s[i])]

RECURSIVE SumBytes(_)
SumBytes(bytes) ==
    IF Len(bytes) = 0 THEN 0 ELSE bytes[1] + SumBytes(Tail(bytes))

\* struct.pack('>H', n) and struct.pack('>I', n): [ok, bytes]; a number out
\* of range raises struct.error
spackH(n) ==
    IF n >= 0 /\ n <= 65535
    THEN [ok |-> TRUE, bytes |-> <<n \div 256, n % 256>>]
    ELSE [ok |-> FALSE, bytes |-> <<>>]

spackI(n) ==
    IF n >= 0 /\ n \div 65536 <= 65535
    THEN [ok |-> TRUE,
          bytes |-> <<n \div 16777216, (n \div 65536) % 256,
                      (n \div 256) % 256, n % 256>>]
    ELSE [ok |-> FALSE, bytes |-> <<>>]

\* ------------------------------------------------------------------------
\* RecordSegment
\* ------------------------------------------------------------------------

\* no segment (self._seg = None); open is the truth value of the reference
NoSeg == [open |-> FALSE, baseaddr |-> 0, size |-> 0, pos |-> 0, buf |-> <<>>]

\* RecordSegment(baseaddr): buf is the BytesIO content, pos its position
RecordSegment(baseaddr) ==
    [open |-> TRUE, baseaddr |-> baseaddr, size |-> 0, pos |-> 0, buf |-> <<>>]

absaddr(seg) == seg.baseaddr + seg.size

\* BytesIO.write(data) at position pos: zero-fills up to pos, overwrites in
\* place, extends the buffer when the data reach beyond its end; a write of
\* no data leaves the buffer as it is, whatever the position
BytesIOWrite(buf, pos, data) ==
    LET n == Max(Len(buf), pos + Len(data))
    IN IF Len(data) = 0 THEN buf
       ELSE [i \in 1..n |->
               IF i > pos /\ i <= pos + Len(data) THEN data[i - pos]
               ELSE IF i <= Len(buf) THEN buf[i] ELSE 0]

\* RecordSegment.write_with_size: [ok, seg]; a negative seek raises ValueError.
\* Every caller passes an address, so "offset is not None" always holds.
write_with_size(seg, data, size, offset) ==
    IF (offset - seg.baseaddr) # seg.size
    THEN LET off == offset - seg.baseaddr
         IN IF off < 0 THEN [ok |-> FALSE, seg |-> seg]
            ELSE [ok |-> TRUE,
                  seg |-> [seg EXCEPT !.buf = BytesIOWrite(seg.buf, off, data),
                                      !.pos = off + Len(data),
                                      !.size = seg.size + (size + off - seg.size)]]
    ELSE [ok |-> TRUE,
          seg |-> [seg EXCEPT !.buf = BytesIOWrite(seg.buf, seg.pos, data),
                              !.pos = seg.pos + Len(data),
                              !.size = seg.size + size]]

\* RecordSegment.write
write(seg, data, offset) == write_with_size(seg, data, Len(data), offset)

\* ------------------------------------------------------------------------
\* RecordParser
\* ------------------------------------------------------------------------

\* record kinds: (INFO, DATA, EXECUTE, EOF) = range(1, 5)
INFO == 1
DATA == 2
EXECUTE == 3
EOF == 4

\* RecordParser.__init__: the parser's fields.  status is "run" while lines
\* are read, "done" after parse() returned, "error" after it raised (err
\* names the exception).  address and stopped are the TI-txt generator's
\* local address (None while unbound) and its break on 'q'.
NewParser ==
    [status |-> "run", err |-> "", exec_addr |-> None, segments |-> <<>>,
     seg |-> NoSeg, info |-> NoSeg, offset_addr |-> 0,
     address |-> None, stopped |-> FALSE]

\* the constructor's options: offset, min_addr, max_addr, segment_gap, verify
Options(offset, min_addr, max_addr, gap, verify) ==
    [offset |-> offset, min_addr |-> min_addr, max_addr |-> max_addr,
     gap |-> gap, verify |-> verify]

Raise(p, err) == [p EXCEPT !.status = "error", !.err = err]

\* RecordParser.__init__ with the options o: a segment gap below 1 is
\* refused with ValueError("Invalid segment gap"), and no line is read
RecordParser_init(o) ==
    IF o.gap < 1 THEN Raise(NewParser, "ValueError") ELSE NewParser

\* RecordParser._verify_address: TRUE when the address is accepted
verify_address(address, o) ==
    ~ ((address < o.min_addr) \/ (address > o.max_addr)) /\ ~ (address < o.offset)

\* a store that puts the segment at the head of the list
store_segment_first(p) ==
    IF p.seg.open /\ p.seg.size # 0
    THEN [p EXCEPT !.segments = <<p.seg>> \o p.segments, !.seg = NoSeg]
    ELSE [p EXCEPT !.seg = NoSeg]

\* a store that leaves the stored segment open
store_segment_open(p) ==
    IF p.seg.open /\ p.seg.size # 0
    THEN [p EXCEPT !.segments = Append(p.segments, p.seg)]
    ELSE [p EXCEPT !.seg = NoSeg]

\* RecordParser._store_segment
store_segment(p) ==
    IF p.seg.open /\ p.seg.size # 0
    THEN [p EXCEPT !.segments = Append(p.segments, p.seg), !.seg = NoSeg]
    ELSE [p EXCEPT !.seg = NoSeg]

\* a DATA branch that closes the open segment only beyond the gap
ParseDataFarther(p, address, value, o) ==
    LET addr == address - o.offset
        p1 == IF p.seg.open /\ Abs(addr - absaddr(p.seg)) > o.gap
              THEN store_segment(p) ELSE p
        p2 == IF ~ p1.seg.open THEN [p1 EXCEPT !.seg = RecordSegment(addr)] ELSE p1
        w == write(p2.seg, value, addr)
    IN IF w.ok THEN [p2 EXCEPT !.seg = w.seg] ELSE Raise(p2, "ValueError")

\* the DATA branch of RecordParser.parse for one record
ParseData(p, address, value, o) ==
    LET addr == address - o.offset
        p1 == IF p.seg.open /\ Abs(addr - absaddr(p.seg)) >= o.gap
              THEN store_segment(p) ELSE p
        p2 == IF ~ p1.seg.open THEN [p1 EXCEPT !.seg = RecordSegment(addr)] ELSE p1
        w == write(p2.seg, value, addr)
    IN IF w.ok THEN [p2 EXCEPT !.seg = w.seg] ELSE Raise(p2, "ValueError")

\* the INFO branch of RecordParser.parse for one record
ParseInfo(p, address, value) ==
    LET p1 == IF ~ p.info.open THEN [p EXCEPT !.info = RecordSegment(address)] ELSE p
        w == write(p1.info, value, address)
    IN IF w.ok THEN [p1 EXCEPT !.info = w.seg] ELSE Raise(p1, "ValueError")

\* the body of the loop of RecordParser.parse for one yielded record
ParseRecord(p, type, address, value, o) ==
    IF type = DATA THEN ParseData(p, address, value, o)
    ELSE IF type = EXECUTE THEN [p EXCEPT !.exec_addr = Some(address)]
    ELSE IF type = INFO THEN ParseInfo(p, address, value)
    ELSE IF type = EOF THEN p
    ELSE Raise(p, "RuntimeError")

\* what a generator does with one line: yield a record, skip the line
\* (continue), or raise; p carries the generator's own state changes
Yield(p, type, address, value) ==
    [tag |-> "yield", p |-> p, type |-> type, address |-> address, value |-> value]
Skip(p) == [tag |-> "skip", p |-> p, type |-> 0, address |-> 0, value |-> <<>>]
Fail(p, err) ==
    [tag |-> "raise", p |-> Raise(p, err), type |-> 0, address |-> 0, value |-> <<>>]

\* ------------------------------------------------------------------------
\* SRecParser
\* ------------------------------------------------------------------------

\* the S-Record type table: [addrend, digits of the address field, kind]
SRecKind(record) ==
    IF record = 1 THEN [addrend |-> 3, last |-> 8, type |-> DATA]
    ELSE IF record = 2 THEN [addrend |-> 4, last |-> 10, type |-> DATA]
    ELSE IF record = 3 THEN [addrend |-> 5, last |-> 12, type |-> DATA]
    ELSE IF record = 7 THEN [addrend |-> 5, last |-> 12, type |-> EXECUTE]
    ELSE IF record = 8 THEN [addrend |-> 4, last |-> 10, type |-> EXECUTE]
    ELSE IF record = 9 THEN [addrend |-> 3, last |-> 8, type |-> EXECUTE]
    ELSE IF record = 0 THEN [addrend |-> 3, last |-> 8, type |-> INFO]
    ELSE [addrend |-> 0, last |-> 0, type |-> 0]

\* the S-Record checksum: one's complement of the low byte of the sum
SRecSum(bytes) == 255 - (SumBytes(bytes) % 256)

\* SRecParser._get_next_chunk from the fields of a line: the address, the
\* bytes, the size and the checksum as int() and unhexlify() read them
SRecFields(p, o, record, k, address, un, size, rsum) ==
    IF k.type = 0 THEN Fail(p, "SRecError")
    ELSE IF ~ address.ok THEN Fail(p, "ValueError")
    ELSE IF ~ un.ok THEN Fail(p, "binascii.Error")
    ELSE IF ~ size.ok THEN Fail(p, "ValueError")
    ELSE IF size.v # Len(un.bytes) THEN Fail(p, "SRecError")
    ELSE IF o.verify /\ ~ rsum.ok THEN Fail(p, "ValueError")
    ELSE IF o.verify /\ rsum.v # SRecSum(un.bytes) THEN Fail(p, "SRecError")
    ELSE IF o.verify /\ record # 0 /\ ~ verify_address(address.v, o)
         THEN Fail(p, "RecordError")
    ELSE Yield(p, k.type, address.v, PyFrom(un.bytes, k.addrend))

\* SRecParser._get_next_chunk for a line of type record (int(line[1]))
SRecRecord(p, line, o, record, k) ==
    IF ~ record.ok THEN Fail(p, "ValueError")
    ELSE SRecFields(p, o, record.v, k, int16(PySlice(line, 4, k.last)),
                    unhexlify(PySlice(line, 2, -2)), int16(PySlice(line, 2, 4)),
                    int16(PyFrom(line, -2)))

\* SRecParser._get_next_chunk for one line, stripped
SRecStripped(p, line, o, record) ==
    IF Len(line) < 5 THEN Skip(p)
    ELSE IF line[1] # "S" THEN Fail(p, "SRecError")
    ELSE SRecRecord(p, line, o, record, SRecKind(record.v))

\* SRecParser._get_next_chunk for one line of the source
SRecParser_get_next_chunk(p, src, o) ==
    SRecStripped(p, strip(src), o, int10(PySlice(strip(src), 1, 2)))

\* ------------------------------------------------------------------------
\* IHexParser
\* ------------------------------------------------------------------------

\* a checksum that is the low byte of the sum, not its two's complement
IHexSumPlain(bytes) == SumBytes(bytes) % 256

\* the Intel HEX checksum: two's complement of the low byte of the sum
IHexSum(bytes) == (0 - SumBytes(bytes)) % 256

\* a | b on Python integers (two's complement without end: \div rounds
\* down, so -1 is all ones)
RECURSIVE BitOr(_, _)
BitOr(a, b) ==
    IF a = 0 THEN b
    ELSE IF b = 0 THEN a
    ELSE IF a = -1 \/ b = -1 THEN -1
    ELSE (IF a % 2 = 1 \/ b % 2 = 1 THEN 1 ELSE 0) + 2 * BitOr(a \div 2, b \div 2)

\* self._offset_addr &= ~((1 << 20) - 1): the low 20 bits cleared
ClearSegment(offset_addr) == offset_addr - (offset_addr % Pow2(20))

\* record type 02: the low 20 bits are cleared, then the extended segment
\* address shifted by 4 is or-ed in (a value above 16 bits reaches bit 20
\* and above, where the bits of the offset stay)
SegmentOffset(offset_addr, value) == BitOr(ClearSegment(offset_addr), Shl(value, 4))

\* an extended linear address shifted like a segment address
LinearOffset4(value) == Shl(value, 4)

\* record type 04: the extended linear address replaces the offset
LinearOffset(value) == Shl(value, 16)

\* record type 03: CS:IP to a linear address
StartAddress(cs, ip) == Shl(cs, 4) + ip

\* IHexParser._get_next_chunk from the fields of a line as int() and
\* unhexlify() read them
IHexFields(p, o, size, address, rec, ext, cs, ip, un, all, rsum) ==
    IF ~ size.ok \/ ~ address.ok \/ ~ rec.ok THEN Fail(p, "ValueError")
    ELSE IF rec.v = 2
         THEN IF ~ ext.ok
              THEN Fail([p EXCEPT !.offset_addr = ClearSegment(p.offset_addr)],
                        "ValueError")
              ELSE Skip([p EXCEPT !.offset_addr = SegmentOffset(p.offset_addr, ext.v)])
    ELSE IF rec.v = 4
         THEN IF ~ ext.ok THEN Fail(p, "ValueError")
              ELSE Skip([p EXCEPT !.offset_addr = LinearOffset(ext.v)])
    ELSE IF rec.v = 3 /\ (~ cs.ok \/ ~ ip.ok) THEN Fail(p, "ValueError")
    ELSE IF rec.v \notin {0, 1, 3} THEN Fail(p, "IHexError")
    ELSE IF ~ un.ok THEN Fail(p, "binascii.Error")
    ELSE IF size.v # Len(un.bytes) THEN Fail(p, "IHexError")
    ELSE IF o.verify /\ ~ all.ok THEN Fail(p, "binascii.Error")
    ELSE IF o.verify /\ ~ rsum.ok THEN Fail(p, "ValueError")
    ELSE IF o.verify /\ rsum.v # IHexSum(all.bytes) THEN Fail(p, "IHexError")
    ELSE IF rec.v = 0
         THEN Yield(p, DATA, address.v + p.offset_addr, un.bytes)
    ELSE IF rec.v = 1
         THEN IF o.verify /\ ~ verify_address(address.v, o) THEN Fail(p, "RecordError")
              ELSE Yield(p, EOF, address.v, un.bytes)
    ELSE IF o.verify /\ ~ verify_address(StartAddress(cs.v, ip.v), o)
         THEN Fail(p, "RecordError")
    ELSE Yield(p, EXECUTE, StartAddress(cs.v, ip.v), un.bytes)

\* IHexParser._get_next_chunk for one line, stripped
IHexRecord(p, line, o) ==
    IF Len(line) < 5 THEN Skip(p)
    ELSE IF line[1] # ":" THEN Fail(p, "IHexError")
    ELSE IHexFields(p, o, int16(PySlice(line, 1, 3)), int16(PySlice(line, 3, 7)),
                    int10(PySlice(line, 7, 9)), int16(PySlice(line, 9, -2)),
                    int16(PySlice(line, 9, 13)), int16(PySlice(line, 13, -2)),
                    unhexlify(PySlice(line, 9, -2)), unhexlify(PySlice(line, 1, -2)),
                    int16(PyFrom(line, -2)))

\* IHexParser._get_next_chunk for one line of the source
IHexParser_get_next_chunk(p, src, o) == IHexRecord(p, strip(src), o)

\* ------------------------------------------------------------------------
\* TItxtParser
\* ------------------------------------------------------------------------

\* TItxtParser._get_next_chunk for one line, stripped; address is int() of
\* what follows the first character, un the bytes of the line
TItxtRecord(p, line, o, address, un) ==
    IF Len(line) > 0 /\ line[1] = "@"
    THEN IF ~ address.ok THEN Fail(p, "ValueError")
         ELSE Skip([p EXCEPT !.address = Some(address.v)])
    ELSE IF line = <<"q">> THEN Yield([p EXCEPT !.stopped = TRUE], EOF, 0, <<>>)
    ELSE IF ~ un.ok THEN Fail(p, "binascii.Error")
    ELSE IF p.address = None THEN Fail(p, "UnboundLocalError")
    ELSE IF ~ verify_address(ValueOf(p.address), o) THEN Fail(p, "RecordError")
    ELSE Yield([p EXCEPT !.address = Some(ValueOf(p.address) + Len(un.bytes))],
               DATA, ValueOf(p.address), un.bytes)

\* TItxtParser._get_next_chunk for one line of the source
TItxtParser_get_next_chunk(p, src, o) ==
    TItxtRecord(p, strip(src), o, int16(PyFrom(strip(src), 1)), unhexlify(strip(src)))

\* ------------------------------------------------------------------------
\* RecordParser.parse, one line at a time
\* ------------------------------------------------------------------------

get_next_chunk(kind, p, line, o) ==
    IF kind = "srec" THEN SRecParser_get_next_chunk(p, line, o)
    ELSE IF kind = "ihex" THEN IHexParser_get_next_chunk(p, line, o)
    ELSE TItxtParser_get_next_chunk(p, line, o)

\* the body of the loop of RecordParser.parse on what the generator made
\* of the line
ParseChunk(c, o) ==
    IF c.tag = "yield" THEN ParseRecord(c.p, c.type, c.address, c.value, o) ELSE c.p

\* one iteration of "for (record, address, value) in self" on the next line
\* of the source; a parser that raised or whose generator ended reads no more
ParseLine(kind, p, line, o) ==
    IF p.status # "run" \/ p.stopped THEN p
    ELSE ParseChunk(get_next_chunk(kind, p, line, o), o)

\* an end of the source that leaves the open segment as it is
ParseEndOpen(p) ==
    IF p.status # "run" THEN p ELSE [p EXCEPT !.status = "done"]

\* the end of the source: the loop ends and parse() stores the open segment
ParseEnd(p) ==
    IF p.status # "run" THEN p ELSE [store_segment(p) EXCEPT !.status = "done"]

\* ------------------------------------------------------------------------
\* IHexFastParser
\* ------------------------------------------------------------------------

\* HEXCRE, '(?aim)^:((?:[0-9A-F][0-9A-F]){5,})$', on one line
HEXCRE(line) ==
    /\ Len(line) >= 11
    /\ line[1] = ":"
    /\ Len(line) % 2 = 1
    /\ IsHex(Tail(line))

\* the DATA branch of IHexFastParser.parse
FastData(p, address, data, size, o) ==
    LET addr == address - o.offset
        p1 == IF p.seg.open /\ Abs(addr - absaddr(p.seg)) >= o.gap
              THEN store_segment(p) ELSE p
        p2 == IF ~ p1.seg.open THEN [p1 EXCEPT !.seg = RecordSegment(addr)] ELSE p1
        w == write_with_size(p2.seg, data, size, addr)
    IN IF w.ok THEN [p2 EXCEPT !.seg = w.seg] ELSE Raise(p2, "ValueError")

\* the body of the loop of IHexFastParser.parse for one line of the source:
\* a line the expression does not match is passed over; the EOF branch
\* names sys, which the module never imports
FastParseLine(p, line, o) ==
    IF p.status # "run" \/ ~ HEXCRE(line) THEN p
    ELSE LET bvalues == unhexlify(Tail(line)).bytes
             size == bvalues[1]
             rsum == bvalues[Len(bvalues)]
             data == PySlice(bvalues, 4, -1)
             address == Shl(bvalues[2], 8) + bvalues[3]
             record == bvalues[4]
             value == Shl(data[1], 8) + data[2]
         IN IF Len(data) # size THEN Raise(p, "IHexError")
            ELSE IF o.verify /\ rsum # IHexSum(PySlice(bvalues, 0, -1))
                 THEN Raise(p, "IHexError")
            ELSE IF o.verify /\ record # 0 /\ ~ verify_address(address, o)
                 THEN Raise(p, "RecordError")
            ELSE IF record = 0
                 THEN FastData(p, address + p.offset_addr, data, size, o)
            ELSE IF record = 1
                 THEN IF address # 0 THEN Raise(p, "NameError") ELSE p
            ELSE IF record = 2
                 THEN IF size # 2 THEN Raise(p, "IHexError")
                      ELSE [p EXCEPT !.offset_addr = SegmentOffset(p.offset_addr, value)]
            ELSE IF record = 4
                 THEN IF size # 2 THEN Raise(p, "IHexError")
                      ELSE [p EXCEPT !.offset_addr = LinearOffset(value)]
            ELSE IF record = 3
                 THEN IF size # 4 THEN Raise(p, "IHexError")
                      ELSE [p EXCEPT !.exec_addr =
                               Some(StartAddress(value, Shl(data[3], 8) + data[4]))]
            ELSE p

\* ------------------------------------------------------------------------
\* a whole parse: every line of the source in order, then the end of it
\* ------------------------------------------------------------------------

RECURSIVE ParseLines(_, _, _, _)
ParseLines(kind, p, lines, o) ==
    IF Len(lines) = 0 THEN p
    ELSE ParseLines(kind,
                    IF kind = "ihexfast" THEN FastParseLine(p, lines[1], o)
                    ELSE ParseLine(kind, p, lines[1], o),
                    Tail(lines), o)

\* parser = Parser(src, options); parser.parse()
parse(kind, lines, o) == ParseEnd(ParseLines(kind, RecordParser_init(o), lines, o))

\* ------------------------------------------------------------------------
\* RecordBuilder and the three builders
\* ------------------------------------------------------------------------

\* range(0, n, 16): the chunk positions of a segment
CHUNK == 16

Built(lines) == [ok |-> TRUE, err |-> "", lines |-> lines]
BuildError(err) == [ok |-> FALSE, err |-> err, lines |-> <<>>]

\* IHexBuilder._create_line
IHexBuilder_create_line(type, address, data) ==
    LET datastr == FmtHex(Len(data), 2, HexUpper) \o FmtHex(address, 4, HexUpper)
                   \o FmtHex(type, 2, HexUpper) \o hexlify(data)
        un == unhexlify(datastr)
    IN IF ~ un.ok THEN BuildError("binascii.Error")
       ELSE Built(<<upper(<<":">> \o datastr \o FmtHex(IHexSum(un.bytes), 2, HexUpper))>>)

\* an error ends the generator; otherwise the lines follow one another
Then(a, b) == IF ~ a.ok THEN a ELSE IF ~ b.ok THEN b ELSE Built(a.lines \o b.lines)

\* IHexBuilder._create_data: the loop from chunk position pos on
\* a loop that writes a type-04 record before the first chunk only
RECURSIVE IHexDataFromOnce(_, _, _, _)
IHexDataFromOnce(data, pos, address, high_addr) ==
    IF pos >= Len(data) THEN Built(<<>>)
    ELSE LET high == Shr(address, 16)
             hi_bytes == spackH(high)
             ext == IF high_addr = <<>>
                    THEN IF hi_bytes.ok
                         THEN IHexBuilder_create_line(4, 0, hi_bytes.bytes)
                         ELSE BuildError("struct.error")
                    ELSE Built(<<>>)
             chunk == PySlice(data, pos, pos + CHUNK)
             rec == IHexBuilder_create_line(0, LowBits(address, 16), chunk)
         IN Then(Then(ext, rec),
                 IF ext.ok /\ rec.ok
                 THEN IHexDataFromOnce(data, pos + CHUNK, address + CHUNK, <<high>>)
                 ELSE Built(<<>>))

RECURSIVE IHexDataFrom(_, _, _, _)
IHexDataFrom(data, pos, address, high_addr) ==
    IF pos >= Len(data) THEN Built(<<>>)
    ELSE LET high == Shr(address, 16)
             hi_bytes == spackH(high)
             ext == IF <<high>> # high_addr
                    THEN IF hi_bytes.ok
                         THEN IHexBuilder_create_line(4, 0, hi_bytes.bytes)
                         ELSE BuildError("struct.error")
                    ELSE Built(<<>>)
             chunk == PySlice(data, pos, pos + CHUNK)
             rec == IHexBuilder_create_line(0, LowBits(address, 16), chunk)
         IN Then(Then(ext, rec),
                 IF ext.ok /\ rec.ok
                 THEN IHexDataFrom(data, pos + CHUNK, address + CHUNK, <<high>>)
                 ELSE Built(<<>>))

\* high_addr is <<>> for None and <<high>> once a type-04 record was written
IHexBuilder_create_data(offset, segment) ==
    IHexDataFrom(segment.buf, 0, offset + segment.baseaddr, <<>>)

\* IHexBuilder._create_exec.  spack('>I', (cs << 16) | ip) is written from
\* its two halves: below 1 << 20 cs is under 1 << 16, so the four bytes are
\* those of cs and of ip, and a negative address (cs < 0) is out of range
IHexBuilder_create_exec(address) ==
    IF address < Pow2(20)
    THEN LET cs == Shr(address, 4)
             ip == LowBits(address, 16)
             addr == IF cs < 0 THEN [ok |-> FALSE, bytes |-> <<>>]
                     ELSE [ok |-> TRUE, bytes |-> spackH(cs).bytes \o spackH(ip).bytes]
         IN IF addr.ok THEN IHexBuilder_create_line(3, 0, addr.bytes)
            ELSE BuildError("struct.error")
    ELSE LET addr == spackI(address)
         IN IF addr.ok THEN IHexBuilder_create_line(5, 0, addr.bytes)
            ELSE BuildError("struct.error")

\* IHexBuilder._create_eof
IHexBuilder_create_eof == IHexBuilder_create_line(1, 0, <<>>)

\* SRecBuilder._create_data: the first chunk concatenates the str prefix and
\* the bytes of hexlify(chunk), which raises TypeError; only a segment
\* without data gets through
SRecBuilder_create_data(offset, segment) ==
    IF Len(segment.buf) = 0 THEN Built(<<>>) ELSE BuildError("TypeError")

\* SRecBuilder._create_exec: the line is formatted, then checksum() applies
\* ord() to the integers of a bytes object, which raises TypeError (an
\* address of odd width fails in unhexlify first)
SRecBuilder_create_exec(address) ==
    LET line == IF address < Pow2(16)
                THEN <<"S", "9", "0", "3">> \o FmtHex(address, 4, HexLower)
                ELSE IF address < Pow2(24)
                THEN <<"S", "8", "0", "4">> \o FmtHex(address, 6, HexLower)
                ELSE <<"S", "7", "0", "5">> \o FmtHex(address, 8, HexLower)
    IN IF ~ unhexlify(PyFrom(line, 2)).ok THEN BuildError("binascii.Error")
       ELSE BuildError("TypeError")

\* ' '.join(['%02x' % b for b in chunk])
RECURSIVE JoinHex(_)
JoinHex(chunk) ==
    IF Len(chunk) = 0 THEN <<>>
    ELSE IF Len(chunk) = 1 THEN FmtHex(chunk[1], 2, HexLower)
    ELSE FmtHex(chunk[1], 2, HexLower) \o <<" ">> \o JoinHex(Tail(chunk))

RECURSIVE TItxtDataFrom(_, _)
TItxtDataFrom(data, pos) ==
    IF pos >= Len(data) THEN <<>>
    ELSE <<upper(JoinHex(PySlice(data, pos, pos + CHUNK)))>>
         \o TItxtDataFrom(data, pos + CHUNK)

\* TItxtBuilder._create_data
TItxtBuilder_create_data(offset, segment) ==
    Built((IF Len(segment.buf) > 0
           THEN <<(<<"@">> \o FmtHex(segment.baseaddr + offset, 4, HexLower))>>
           ELSE <<>>)
          \o TItxtDataFrom(segment.buf, 0))

create_data(fmt, offset, segment) ==
    IF fmt = "ihex" THEN IHexBuilder_create_data(offset, segment)
    ELSE IF fmt = "srec" THEN SRecBuilder_create_data(offset, segment)
    ELSE TItxtBuilder_create_data(offset, segment)

\* _create_exec; TItxtBuilder inherits the abstract method
create_exec(fmt, address) ==
    IF fmt = "ihex" THEN IHexBuilder_create_exec(address)
    ELSE IF fmt = "srec" THEN SRecBuilder_create_exec(address)
    ELSE BuildError("NotImplementedError")

\* _create_eof, and build's "if eof:" (SRecBuilder's is the empty string)
create_eof(fmt) ==
    IF fmt = "ihex" THEN IHexBuilder_create_eof
    ELSE IF fmt = "srec" THEN Built(<<>>)
    ELSE Built(<<(<<"q">>)>>)

RECURSIVE BuildSegments(_, _, _)
BuildSegments(fmt, offset, datasegs) ==
    IF Len(datasegs) = 0 THEN Built(<<>>)
    ELSE LET first == create_data(fmt, offset, datasegs[1])
         IN IF ~ first.ok THEN first
            ELSE Then(first, BuildSegments(fmt, offset, Tail(datasegs)))

\* RecordBuilder.build(datasegs, execaddr=execaddr, offset=offset), without
\* an info segment: the lines written, or the exception raised
build(fmt, datasegs, execaddr, offset) ==
    LET body == BuildSegments(fmt, offset, datasegs)
    IN IF ~ body.ok THEN body
       ELSE LET ex == IF execaddr # None THEN create_exec(fmt, ValueOf(execaddr)) ELSE Built(<<>>)
            IN IF ~ ex.ok THEN ex ELSE Then(Then(body, ex), create_eof(fmt))

\* ------------------------------------------------------------------------
\* State
\* ------------------------------------------------------------------------

VARIABLES
    fmt,     \* the format of the source being parsed: "ihex", "srec", "titxt"
    opts,    \* the options the parsers were constructed with
    lp,      \* the line parser (IHexParser, SRecParser or TItxtParser)
    fp,      \* IHexFastParser reading the same source (Intel HEX only)
    phase,   \* "feed" while the source has lines left, "end" after it ended
    nfed,    \* number of lines read from the source
    last,    \* the line read last and the record the generator made of it
    ext,     \* the extended-address record read last, if any
    runs,    \* the DATA records read so far, grouped into runs of addresses
    good,    \* every line read so far was a well-formed record
    rt,      \* a build-then-parse round trip
    mg       \* the merge driver

vars == <<fmt, opts, lp, fp, phase, nfed, last, ext, runs, good, rt, mg>>

parserVars == <<fmt, opts, lp, fp, phase, nfed, last, ext, runs, good>>

\* ------------------------------------------------------------------------
\* Sources: the lines a record stream is made of
\* ------------------------------------------------------------------------

\* most lines one source holds
MaxLines == 3

\* the largest address the model's inputs use, standing for max_addr's
\* default 0xffffffff
TopAddr == Pow2(30) + (Pow2(30) - 1)

\* upper-case hexadecimal text of a byte string, as record files hold it
HexText(bytes) == upper(hexlify(bytes))

\* big-endian bytes of an address field of w bytes
RECURSIVE AddrBytes(_, _)
AddrBytes(a, w) == IF w = 0 THEN <<>> ELSE AddrBytes(a \div 256, w - 1) \o <<a % 256>>

\* an Intel HEX line with the given fields and trailing checksum byte
IHexLine(type, address, data, csum) ==
    <<":">> \o HexText(<<Len(data)>> \o AddrBytes(address, 2) \o <<type>> \o data \o <<csum>>)

\* the checksum a well-formed Intel HEX record of these fields carries
IHexGoodSum(type, address, data) ==
    (256 - (SumBytes(<<Len(data)>> \o AddrBytes(address, 2) \o <<type>> \o data) % 256)) % 256

\* width in bytes of the address field of S-Record type t
SRecWidth(t) == IF t \in {2, 8} THEN 3 ELSE IF t \in {3, 7} THEN 4 ELSE 2

SRecBody(t, address, data) ==
    <<Len(data) + SRecWidth(t) + 1>> \o AddrBytes(address, SRecWidth(t)) \o data

\* an S-Record line with the given fields and trailing checksum byte
SRecLine(t, address, data, csum) ==
    <<"S", HexUpper[t + 1]>> \o HexText(SRecBody(t, address, data) \o <<csum>>)

\* the checksum a well-formed S-Record of these fields carries
SRecGoodSum(t, address, data) == 255 - (SumBytes(SRecBody(t, address, data)) % 256)

\* the DATA records of a source, <<address field, payload>>: contiguous
\* records (16, 18, 20 after a two-byte record at 16), a hole below the gap
\* (20 after 18), a hole of exactly 16 (34 after 18), a record 0x100 beyond
\* (274 after 18), a record inside the open segment (16 after 18), one
\* before it (4), and a record without payload
DataRecords ==
    {<<16, <<34, 51>>>>, <<18, <<17>>>>, <<20, <<17>>>>, <<34, <<17>>>>,
     <<274, <<17>>>>, <<4, <<17>>>>, <<16, <<17>>>>, <<18, <<>>>>}

\* the S-Record types a DATA record of the source comes in: S1, and S2 and
\* S3 for the record at 20
DataTypes(f, a) == IF f = "srec" /\ a = 20 THEN {1, 2, 3} ELSE IF f = "srec" THEN {1} ELSE {0}

\* the values of the extended-address records (types 02 and 04)
ExtValues == {0, 1}

\* the EXECUTE records of a source, <<record type, execution address>>:
\* Intel HEX 03 (CS:IP) and 05 (linear), S9, S8 and S7
ExecRecords(f) ==
    IF f = "ihex" THEN {<<3, 32768>>, <<3, 74565>>, <<5, 74565>>}
    ELSE {<<9, 32768>>, <<8, 74565>>, <<7, 74565>>}

\* what the source's last line was made from; kind is "data", "ext", "exec",
\* "eof", "addr" or "malformed", type the format's record type; corrupt
\* tells a line that is no well-formed record, aftereof a line that came
\* after an end-of-file record
LineInfo(kind, type, address, data) ==
    [kind |-> kind, type |-> type, address |-> address, data |-> data,
     corrupt |-> FALSE, aftereof |-> FALSE]

NoLine == LineInfo("none", 0, 0, <<>>)

NoExt == [type |-> 0, value |-> 0]

\* the options of the parsers of a source: the defaults, no verification,
\* a gap of 2, an offset, and address bounds
OptionSet(f) ==
    IF f = "ihex"
    THEN {Options(0, 0, TopAddr, 16, TRUE), Options(0, 0, TopAddr, 16, FALSE),
          Options(0, 0, TopAddr, 2, TRUE), Options(4, 0, TopAddr, 16, TRUE),
          Options(4, 0, TopAddr, 16, FALSE), Options(0, 16, 256, 16, TRUE)}
    ELSE IF f = "srec"
    THEN {Options(0, 0, TopAddr, 16, TRUE), Options(0, 0, TopAddr, 16, FALSE),
          Options(0, 16, 256, 16, TRUE)}
    ELSE {Options(0, 0, TopAddr, 16, TRUE), Options(0, 0, TopAddr, 2, TRUE),
          Options(0, 16, 256, 16, TRUE)}

\* ------------------------------------------------------------------------
\* Parsing a source line by line
\* ------------------------------------------------------------------------

IdleRT == [pc |-> "idle"]
IdleMG == [pc |-> "idle"]

ParserInit ==
    /\ fmt \in {"ihex", "srec", "titxt"}
    /\ opts \in OptionSet(fmt)
    /\ lp = RecordParser_init(opts)
    /\ fp = RecordParser_init(opts)
    /\ phase = "feed"
    /\ nfed = 0
    /\ last = NoLine
    /\ ext = NoExt
    /\ runs = [valid |-> TRUE, list |-> <<>>]
    /\ good = TRUE

Init == ParserInit /\ rt = IdleRT /\ mg = IdleMG

\* a parser that still reads the source
Reading ==
    /\ phase = "feed"
    /\ nfed < MaxLines
    /\ (lp.status = "run" \/ (fmt = "ihex" /\ fp.status = "run"))

\* the runs of DATA records after the generator yields (DATA, address,
\* value): a record at the end of the last run extends it, a record 0x100
\* beyond it starts the next run, any other address ends the bookkeeping
AddToRuns(r, address, value) ==
    IF ~ r.valid THEN r
    ELSE IF Len(r.list) = 0
         THEN [r EXCEPT !.list = <<[first |-> address, cat |-> value]>>]
    ELSE LET n == Len(r.list)
             end == r.list[n].first + Len(r.list[n].cat)
         IN IF address = end
            THEN [r EXCEPT !.list[n].cat = r.list[n].cat \o value]
            ELSE IF address = end + 256
            THEN [r EXCEPT !.list = Append(r.list, [first |-> address, cat |-> value])]
            ELSE [valid |-> FALSE, list |-> <<>>]

\* both parsers read the next line of the source
Read(info, line) ==
    LET c == get_next_chunk(fmt, lp, line, opts)
    IN /\ Reading
       /\ lp' = IF lp.status # "run" \/ lp.stopped THEN lp ELSE ParseChunk(c, opts)
       /\ fp' = IF fmt = "ihex" THEN FastParseLine(fp, line, opts) ELSE fp
       /\ nfed' = nfed + 1
       /\ last' = [info EXCEPT !.aftereof =
                      ((last.kind = "eof" /\ ~ last.corrupt) \/ last.aftereof)]
       /\ good' = (good /\ ~ info.corrupt)
       /\ ext' = IF info.kind = "ext" THEN [type |-> info.type, value |-> info.address]
                 ELSE ext
       /\ runs' = IF lp.status = "run" /\ ~ lp.stopped /\ c.tag = "yield" /\ c.type = DATA
                  THEN AddToRuns(runs, c.address, c.value) ELSE runs
       /\ UNCHANGED <<fmt, opts, phase, rt, mg>>

\* a well-formed DATA record: Intel HEX type 00, S1/S2/S3, or a TI-txt line
\* of hexadecimal byte pairs
DataLine(f, t, a, d) ==
    IF f = "ihex" THEN IHexLine(0, a, d, IHexGoodSum(0, a, d))
    ELSE IF f = "srec" THEN SRecLine(t, a, d, SRecGoodSum(t, a, d))
    ELSE HexText(d)

ReadData ==
    \/ \E r \in DataRecords : \E t \in DataTypes(fmt, r[1]) :
          /\ Reading
          /\ fmt \in {"ihex", "srec"}
          /\ Read(LineInfo("data", t, r[1], r[2]), DataLine(fmt, t, r[1], r[2]))
    \/ \E d \in {r[2] : r \in DataRecords} :
          /\ Reading
          /\ fmt = "titxt"
          /\ Read(LineInfo("data", 0, IF lp.address = None THEN 0 ELSE ValueOf(lp.address), d),
               DataLine(fmt, 0, 0, d))

\* a TI-txt '@addr' line
ReadAddress ==
    \E a \in {r[1] : r \in DataRecords} :
        /\ Reading
        /\ fmt = "titxt"
        /\ Read(LineInfo("addr", 0, a, <<>>), <<"@">> \o FmtHex(a, 4, HexUpper))

\* a well-formed Intel HEX extended segment (02) or linear (04) address record
ReadExtended ==
    \E t \in {2, 4}, v \in ExtValues :
        /\ Reading
        /\ fmt = "ihex"
        /\ Read(LineInfo("ext", t, v, AddrBytes(v, 2)),
                IHexLine(t, 0, AddrBytes(v, 2), IHexGoodSum(t, 0, AddrBytes(v, 2))))

\* the payload of a type-03 record for execution address e: CS holds the
\* bits above the low 16 (as a paragraph number), IP the low 16
StartSegment(e) == AddrBytes((e \div 65536) * 4096, 2) \o AddrBytes(e % 65536, 2)

\* a well-formed EXECUTE record: Intel HEX type 03 or 05, S7/S8/S9
ReadExecute ==
    \E x \in ExecRecords(fmt) :
        LET d == IF x[1] = 3 THEN StartSegment(x[2])
                 ELSE IF x[1] = 5 THEN AddrBytes(x[2], 4) ELSE <<>>
        IN /\ Reading
           /\ fmt \in {"ihex", "srec"}
           /\ Read(LineInfo("exec", x[1], x[2], d),
                   IF fmt = "ihex" THEN IHexLine(x[1], 0, d, IHexGoodSum(x[1], 0, d))
                   ELSE SRecLine(x[1], x[2], d, SRecGoodSum(x[1], x[2], d)))

\* an end-of-file record: Intel HEX type 01, TI-txt 'q'
ReadEOF ==
    /\ Reading
    /\ fmt \in {"ihex", "titxt"}
    /\ Read(LineInfo("eof", IF fmt = "ihex" THEN 1 ELSE 0, 0, <<>>),
            IF fmt = "ihex" THEN IHexLine(1, 0, <<>>, IHexGoodSum(1, 0, <<>>)) ELSE <<"q">>)

\* a DATA record one payload byte of which was changed after the checksum
\* was computed, read with verification enabled: the byte is changed to any
\* other value in the first line of a source, to the next value in a later
\* line
ReadCorrupt ==
    /\ Reading
    /\ fmt \in {"ihex", "srec"}
    /\ opts.verify
    /\ \E r \in DataRecords : \E t \in DataTypes(fmt, r[1]) : \E i \in 1..Len(r[2]) :
       \E v \in (IF nfed = 0 THEN 0..255 ELSE {(r[2][i] + 1) % 256}) \ {r[2][i]} :
          LET bad == [r[2] EXCEPT ![i] = v]
          IN Read([LineInfo("data", t, 0, <<>>) EXCEPT !.corrupt = TRUE],
                  IF fmt = "ihex" THEN IHexLine(0, r[1], bad, IHexGoodSum(0, r[1], r[2]))
                  ELSE SRecLine(t, r[1], bad, SRecGoodSum(t, r[1], r[2])))

\* non-empty lines that are no well-formed record of the format: a wrong
\* leading marker, a character that is no hexadecimal digit, an unknown
\* record type, a byte count that differs from the payload, an odd number
\* of digits, a line of fewer than five characters
MalformedLines(f) ==
    IF f = "ihex"
    THEN {<<"S">> \o Tail(IHexLine(0, 16, <<17>>, IHexGoodSum(0, 16, <<17>>))),
          [IHexLine(0, 16, <<17>>, IHexGoodSum(0, 16, <<17>>)) EXCEPT ![10] = "G"],
          IHexLine(6, 0, <<>>, IHexGoodSum(6, 0, <<>>)),
          <<":">> \o HexText(<<2, 0, 16, 0, 17, 221>>),
          PySlice(IHexLine(0, 16, <<17>>, IHexGoodSum(0, 16, <<17>>)), 0, -1),
          <<":", "0", "0">>}
    ELSE IF f = "srec"
    THEN {<<":">> \o Tail(SRecLine(1, 16, <<17>>, SRecGoodSum(1, 16, <<17>>))),
          [SRecLine(1, 16, <<17>>, SRecGoodSum(1, 16, <<17>>)) EXCEPT ![9] = "G"],
          SRecLine(4, 16, <<17>>, SRecGoodSum(4, 16, <<17>>)),
          <<"S", "1">> \o HexText(<<5, 0, 16, 17, 217>>),
          <<"S", "9">>}
    ELSE {<<"G", "G">>, <<"1", "2", "3">>, <<"@", "G", "G">>}

\* a line that is no well-formed record
ReadMalformed ==
    \E l \in MalformedLines(fmt) :
        /\ Reading
        /\ Read([LineInfo("malformed", 0, 0, <<>>) EXCEPT !.corrupt = TRUE], l)

\* a record other than DATA whose trailing checksum is one more than the sum
\* of the record gives, read with verification enabled: Intel HEX types 02,
\* 04, 03 and 01, S9
ReadBadChecksum ==
    /\ Reading
    /\ fmt \in {"ihex", "srec"}
    /\ opts.verify
    /\ \/ \E t \in {2, 4} :
            /\ fmt = "ihex"
            /\ Read([LineInfo("ext", t, 1, AddrBytes(1, 2)) EXCEPT !.corrupt = TRUE],
                    IHexLine(t, 0, AddrBytes(1, 2),
                             (IHexGoodSum(t, 0, AddrBytes(1, 2)) + 1) % 256))
       \/ \E t \in {3, 1} :
            LET d == IF t = 3 THEN StartSegment(32768) ELSE <<>>
            IN /\ fmt = "ihex"
               /\ Read([LineInfo(IF t = 3 THEN "exec" ELSE "eof", t, 32768 * (t \div 3), d)
                           EXCEPT !.corrupt = TRUE],
                       IHexLine(t, 0, d, (IHexGoodSum(t, 0, d) + 1) % 256))
       \/ /\ fmt = "srec"
          /\ Read([LineInfo("exec", 9, 32768, <<>>) EXCEPT !.corrupt = TRUE],
                  SRecLine(9, 32768, <<>>, (SRecGoodSum(9, 32768, <<>>) + 1) % 256))

\* the source has no more lines: the loop ends and the open segment is stored
EndOfSource ==
    /\ phase = "feed"
    /\ phase' = "end"
    /\ lp' = ParseEnd(lp)
    /\ fp' = IF fmt = "ihex" THEN ParseEnd(fp) ELSE fp
    /\ UNCHANGED <<fmt, opts, nfed, last, ext, runs, good, rt, mg>>

Next ==
    \/ ReadData
    \/ ReadAddress
    \/ ReadExtended
    \/ ReadExecute
    \/ ReadEOF
    \/ ReadCorrupt
    \/ ReadMalformed
    \/ ReadBadChecksum
    \/ EndOfSource

Spec == Init /\ [][Next]_vars

\* ------------------------------------------------------------------------
\* Properties of a parse
\* ------------------------------------------------------------------------

\* get_data_segments(): base address, size and data of each stored segment
SegView(p) ==
    [i \in 1..Len(p.segments) |->
        [baseaddr |-> p.segments[i].baseaddr, size |-> p.segments[i].size,
         data |-> p.segments[i].buf]]

\* C4: with verification enabled, a DATA record (Intel HEX type 00, S1, S2,
\* S3) one payload byte of which was changed to a different value, its
\* checksum left as it was, makes IHexParser, IHexFastParser and SRecParser
\* raise.
ChecksumRejection ==
    (last.corrupt /\ last.kind = "data" /\ opts.verify)
        => (lp.status = "error" /\ (fmt = "ihex" => fp.status = "error"))

\* C4 happens: a corrupted record that followed accepted lines was rejected
\* for its checksum by the S-Record parser, and one by both Intel HEX parsers
ChecksumRejectionSeenSRec ==
    /\ fmt = "srec" /\ last.corrupt /\ last.kind = "data" /\ nfed >= 2
    /\ lp.status = "error" /\ lp.err = "SRecError" /\ Len(lp.segments) + lp.seg.size > 0

ChecksumRejectionSeen ==
    /\ fmt = "ihex" /\ last.corrupt /\ last.kind = "data" /\ nfed >= 2
    /\ lp.status = "error" /\ lp.err = "IHexError" /\ lp.seg.size > 0
    /\ fp.status = "error" /\ fp.err = "IHexError" /\ fp.seg.size > 0

\* the segments the runs of DATA records stand for
RunSegments ==
    [i \in 1..Len(runs.list) |->
        [baseaddr |-> runs.list[i].first - opts.offset,
         size |-> Len(runs.list[i].cat), data |-> runs.list[i].cat]]

\* the source was a sequence of DATA records each at the end address of the
\* one before, but for records 0x100 beyond it read with segment_gap = 16
Coalescible ==
    /\ phase = "end" /\ runs.valid /\ Len(runs.list) >= 1
    /\ (Len(runs.list) > 1 => opts.gap = 16)

\* C5 as stated: DATA records each at the end address of the one before
\* yield exactly one segment, based at the first record's address and
\* holding the payloads in order; a record 0x100 beyond the previous end,
\* with segment_gap = 16, starts a second segment.
CoalescingAnyPayload ==
    (Coalescible /\ lp.status = "done") => SegView(lp) = RunSegments

\* C5, amended: the same, for runs of records that carry at least one
\* payload byte each; it holds of the line parsers and of IHexFastParser.
Coalescing ==
    (Coalescible /\ \A i \in 1..Len(runs.list) : Len(runs.list[i].cat) > 0)
        => /\ lp.status = "done" => SegView(lp) = RunSegments
           /\ (fmt = "ihex" /\ lp.status = "done" /\ fp.status = "done")
                 => SegView(fp) = RunSegments

\* C5 happens: contiguous records made one segment
CoalescingSeen ==
    /\ Coalescible /\ lp.status = "done" /\ nfed >= 2 /\ last.kind = "data"
    /\ Len(runs.list) = 1 /\ runs.list[1].cat = <<34, 51, 17>>
    /\ Len(lp.segments) = 1 /\ lp.segments[1].buf = <<34, 51, 17>>

\* C5 happens: a record 0x100 beyond the end made a second segment
CoalescingSplitSeen ==
    /\ Coalescible /\ lp.status = "done" /\ Len(runs.list) = 2
    /\ Len(runs.list[1].cat) > 0 /\ Len(runs.list[2].cat) > 0
    /\ Len(lp.segments) = 2
    /\ lp.segments[2].baseaddr = lp.segments[1].baseaddr + lp.segments[1].size + 256

\* the open segment holds data at the absolute address addr
HoldsAt(seg, addr, data) ==
    /\ seg.open
    /\ addr >= seg.baseaddr
    /\ addr - seg.baseaddr + Len(data) <= Len(seg.buf)
    /\ SubSeq(seg.buf, addr - seg.baseaddr + 1, addr - seg.baseaddr + Len(data)) = data

\* the last line was a type-00 record with payload, read while the latest
\* extended-address record was a type 04
DataAfterLinear ==
    /\ fmt = "ihex" /\ phase = "feed"
    /\ last.kind = "data" /\ ~ last.corrupt /\ Len(last.data) > 0
    /\ ext.type = 4

\* C8: after a type-04 record with value V, a type-00 record with address
\* field A is written at (V << 16) + A less the parser's offset, until the
\* next extended-address record, by IHexParser and by IHexFastParser.
ExtendedLinearAddress ==
    DataAfterLinear =>
        /\ lp.status = "run"
              => HoldsAt(lp.seg, Shl(ext.value, 16) + last.address - opts.offset, last.data)
        /\ fp.status = "run"
              => HoldsAt(fp.seg, Shl(ext.value, 16) + last.address - opts.offset, last.data)

\* C8 happens: both parsers wrote a record at 0x10000 + A
ExtendedLinearAddressSeen ==
    /\ DataAfterLinear /\ ext.value = 1
    /\ lp.status = "run" /\ fp.status = "run"
    /\ lp.seg.baseaddr >= 65536 /\ fp.seg.baseaddr >= 65536

\* C10: on a source of correctly check-summed records of types 00 to 05,
\* IHexParser and IHexFastParser with the same options both fail, or both
\* succeed with the same segments and the same execution address.
FastLineEquivalence ==
    (fmt = "ihex" /\ phase = "end" /\ good)
        => /\ lp.status = fp.status
           /\ lp.status = "done"
                 => (SegView(lp) = SegView(fp) /\ lp.exec_addr = fp.exec_addr)

\* ------------------------------------------------------------------------
\* Building a segment list and parsing the text back; parsing a source and
\* building it again
\* ------------------------------------------------------------------------

\* most segments one list holds
MaxSegs == 2

\* the data of a segment of n bytes
Pattern(seed, n) == [i \in 1..n |-> (seed + 37 * i) % 256]

\* a RecordSegment at base holding data, as a caller of the builders makes it
SegmentOf(base, data) == write(RecordSegment(base), data, base).seg

\* the segments lists are made of, <<base address, length>>: one byte, one
\* chunk, a chunk and a byte, segments 16 and 1 bytes beyond others, one that
\* crosses 0xFFFF, one whose second chunk begins at 0x10000 and one of three
\* chunks above it
SegmentShapes == {<<0, 1>>, <<0, 16>>, <<16, 17>>, <<32, 1>>, <<34, 1>>,
                  <<65520, 17>>, <<65528, 16>>, <<65536, 33>>}

\* the bytes between two intervals that do not intersect, -1 when they do
Apart(a, b) ==
    IF a[1] + a[2] <= b[1] THEN b[1] - (a[1] + a[2])
    ELSE IF b[1] + b[2] <= a[1] THEN a[1] - (b[1] + b[2])
    ELSE 0 - 1

\* the ordered lists of 1 to MaxSegs shapes pairwise at least gap apart
ShapeLists(gap) ==
    {l \in UNION {[1..n -> SegmentShapes] : n \in 1..MaxSegs} :
        \A i, j \in DOMAIN l : i < j => Apart(l[i], l[j]) >= gap}

\* the offset and segment_gap a list is built and parsed with
RoundTripOptions == {<<0, 16>>, <<16, 16>>, <<0, 1>>}

\* the S-Record sources of two lines, an S1 record of 1 to 16 payload bytes
\* and an S9 record: <<S1 address, payload, S9 address>>
SRecSources ==
    {<<a, d, e>> : a \in {0, 16, 4660}, d \in {<<7>>, <<1, 2>>, Pattern(33, 16)},
                   e \in {0, 32768}}

\* segs and exec are the segments and the execution address built from, or
\* those the lines of a source stand for
RT(pc, f, segs, exec, offset, gap, lines, out, res) ==
    [pc |-> pc, fmt |-> f, segs |-> segs, exec |-> exec, offset |-> offset,
     gap |-> gap, lines |-> lines, out |-> out, res |-> res]

\* the view of a segment list a comparison is made on
ListView(segs) ==
    [i \in 1..Len(segs) |->
        [baseaddr |-> segs[i].baseaddr, size |-> segs[i].size, data |-> segs[i].buf]]

ParserIdle ==
    /\ fmt = "ihex"
    /\ opts = Options(0, 0, TopAddr, 16, TRUE)
    /\ lp = NewParser
    /\ fp = NewParser
    /\ phase = "end"
    /\ nfed = 0
    /\ last = NoLine
    /\ ext = NoExt
    /\ runs = [valid |-> TRUE, list |-> <<>>]
    /\ good = TRUE

\* most DATA records one record stream holds
MaxRecords == 3

\* the record streams: 1 to MaxRecords DATA records in any order
RecordStreams == UNION {[1..n -> DataRecords] : n \in 1..MaxRecords}

\* the parsers a stream is read by, and the segment_gap they are given (0 is
\* a gap the constructor refuses)
StreamParsers == {"ihex", "ihexfast", "srec", "titxt"}
StreamGaps == {16, 2, 0}

\* the lines of a stream for parser f: a DATA record per record, for TI-txt
\* an '@' address line and a data line
RECURSIVE StreamLines(_, _)
StreamLines(f, recs) ==
    IF Len(recs) = 0 THEN <<>>
    ELSE (IF f = "titxt"
          THEN <<(<<"@">> \o FmtHex(recs[1][1], 4, HexUpper)), HexText(recs[1][2])>>
          ELSE <<DataLine(IF f = "ihexfast" THEN "ihex" ELSE f, 1, recs[1][1], recs[1][2])>>)
         \o StreamLines(f, Tail(recs))

InitRT ==
    /\ ParserIdle
    /\ mg = IdleMG
    /\ \/ \E f \in {"ihex", "srec", "titxt"}, o \in RoundTripOptions :
            \E l \in ShapeLists(o[2]) :
                rt = RT("segments", f,
        [i \in 1..Len(l) |-> SegmentOf(l[i][1], Pattern(l[i][1] + i, l[i][2]))],
                        None, o[1], o[2], <<>>, Built(<<>>), NewParser)
       \/ \E f \in StreamParsers, g \in StreamGaps, recs \in RecordStreams :
            rt = RT("stream", f, [i \in 1..Len(recs) |-> SegmentOf(recs[i][1], recs[i][2])],
                    None, 0, g, StreamLines(f, recs), Built(<<>>), NewParser)
       \/ \E src \in SRecSources :
            rt = RT("source", "srec", <<SegmentOf(src[1], src[2])>>, Some(src[3]), 0, 16,
                    <<SRecLine(1, src[1], src[2], SRecGoodSum(1, src[1], src[2])),
                      SRecLine(9, src[3], <<>>, SRecGoodSum(9, src[3], <<>>))>>,
                    Built(<<>>), NewParser)

\* builder = Builder(); builder.build(segments, offset=offset)
RTBuild ==
    /\ rt.pc = "segments"
    /\ LET out == build(rt.fmt, rt.segs, None, rt.offset)
       IN rt' = [rt EXCEPT !.out = out, !.pc = IF out.ok THEN "built" ELSE "raised"]
    /\ UNCHANGED <<parserVars, mg>>

\* parser = Parser(text, offset=offset, segment_gap=gap); parser.parse()
RTParse ==
    /\ rt.pc = "built"
    /\ rt' = [rt EXCEPT !.pc = "parsed",
                        !.res = parse(rt.fmt, rt.out.lines,
                                      Options(rt.offset, 0, TopAddr, rt.gap, TRUE))]
    /\ UNCHANGED <<parserVars, mg>>

\* parser = SRecParser(source); parser.parse()
RTParseSource ==
    /\ rt.pc = "source"
    /\ LET res == parse("srec", rt.lines, Options(0, 0, TopAddr, 16, TRUE))
       IN rt' = [rt EXCEPT !.res = res,
                           !.pc = IF res.status = "done" THEN "read" ELSE "raised"]
    /\ UNCHANGED <<parserVars, mg>>

\* SRecBuilder().build(parser.get_data_segments(), execaddr=parser.getexec())
RTRebuild ==
    /\ rt.pc = "read"
    /\ LET out == build("srec", rt.res.segments, rt.res.exec_addr, 0)
       IN rt' = [rt EXCEPT !.out = out, !.pc = IF out.ok THEN "rebuilt" ELSE "raised"]
    /\ UNCHANGED <<parserVars, mg>>

\* parser = Parser(stream, segment_gap=gap); parser.parse()
RTParseStream ==
    /\ rt.pc = "stream"
    /\ LET res == parse(rt.fmt, rt.lines, Options(0, 0, TopAddr, rt.gap, TRUE))
       IN rt' = [rt EXCEPT !.res = res,
                           !.pc = IF res.status = "done" THEN "flushed" ELSE "failed"]
    /\ UNCHANGED <<parserVars, mg>>

NextRT ==
    \/ RTBuild
    \/ RTParse
    \/ RTParseSource
    \/ RTRebuild
    \/ RTParseStream

SpecRT == InitRT /\ [][NextRT]_vars

\* the round trip of the list reached its end: the build raised, or the
\* text was parsed
RoundTripOver(f) ==
    /\ rt.fmt = f /\ Len(rt.segs) > 0 /\ Len(rt.lines) = 0
    /\ rt.pc \in {"raised", "parsed"}

\* the text was built and parsed without an error into the list's segments
RoundTripSame ==
    /\ rt.pc = "parsed" /\ rt.out.ok
    /\ rt.res.status = "done"
    /\ SegView(rt.res) = ListView(rt.segs)

\* C1: the text IHexBuilder builds from a list of non-empty segments
\* pairwise at least segment_gap apart, parsed by IHexParser with the same
\* offset and segment_gap, gives back the list: same length, order, base
\* addresses and bytes.
IHexRoundTrip == RoundTripOver("ihex") => RoundTripSame

\* C2: the text SRecBuilder builds from a list of non-empty segments, with
\* offset 0, parsed by SRecParser, gives back the segments' base addresses
\* and bytes.
SRecRoundTrip == (RoundTripOver("srec") /\ rt.offset = 0) => RoundTripSame

\* C3: the text TItxtBuilder builds from a list of non-empty segments at
\* addresses up to 0xFFFF is parsed by TItxtParser without an error into
\* segments of the same base addresses and bytes.
TItxtRoundTrip ==
    (/\ RoundTripOver("titxt")
     /\ \A i \in 1..Len(rt.segs) :
           rt.segs[i].baseaddr + rt.offset + rt.segs[i].size <= 65536)
        => RoundTripSame

\* the two lines of the source were parsed
SourceIsS1S9 == rt.pc \in {"read", "raised", "rebuilt"} /\ Len(rt.lines) = 2

\* C9: an S1 line and an S9 line parsed with default options give one
\* segment at the S1 address holding the payload, and the S9 address as the
\* execution address; SRecBuilder builds the two lines again from them.
SRecRebuild ==
    SourceIsS1S9
        => /\ rt.res.status = "done"
           /\ SegView(rt.res) = ListView(rt.segs)
           /\ rt.res.exec_addr = rt.exec
           /\ rt.pc # "read" => (rt.pc = "rebuilt" /\ rt.out.lines = rt.lines)

\* ------------------------------------------------------------------------
\* mergehex: the merge driver
\* ------------------------------------------------------------------------

\* most input files one run is given
MaxInputs == 3

\* the data segments of the input files, <<base address, length>> each:
\* [0x1000, 0x1004), one that intersects it, one that begins at its end, one
\* that ends at its base, one far from it, none at all, and a file whose
\* third segment intersects its first
InputSegments ==
    {<< <<4096, 4>> >>, << <<4098, 6>> >>, << <<4100, 2>> >>, << <<4092, 4>> >>,
     << <<8192, 2>> >>, <<>>,
     << <<12288, 2>>, <<16384, 2>>, <<12289, 2>> >>}

\* the execution address of an input file: none, 0, 0x8000 or 0x9000
InputExecs == {None, Some(0), Some(32768), Some(36864)}

\* the lines of an input file: a type-00 record per segment, a type-03
\* record when the file defines an execution address, and the EOF record
InputLines(segs, e) ==
    [i \in 1..Len(segs) |->
        LET d == Pattern(segs[i][1], segs[i][2])
        IN IHexLine(0, segs[i][1], d, IHexGoodSum(0, segs[i][1], d))]
    \o (IF e = None THEN <<>>
        ELSE <<IHexLine(3, 0, StartSegment(ValueOf(e)),
                        IHexGoodSum(3, 0, StartSegment(ValueOf(e))))>>)
    \o <<IHexLine(1, 0, <<>>, IHexGoodSum(1, 0, <<>>))>>

\* the test of an input's execution address against the one kept
ExecConflictAbove(start_addr, exec_addr) ==
    start_addr # None /\ ValueOf(start_addr) > ValueOf(exec_addr)

\* start_addr is not None and start_addr != exec_addr
ExecConflict(start_addr, exec_addr) == start_addr # None /\ start_addr # exec_addr

\* the test of a new segment against one that begins above its base only
OverridesAbove(c_start, c_end, s_start, s_end) == c_end >= s_start /\ c_start < s_start

\* c_end >= s_start and c_start < s_end
Overrides(c_start, c_end, s_start, s_end) == c_end >= s_start /\ c_start < s_end

\* the inner loop: the new segment against every accepted segment
SegmentOverride(segment, segments) ==
    \E i \in 1..Len(segments) :
        Overrides(segment.baseaddr, segment.baseaddr + segment.size,
                  segments[i].baseaddr, segments[i].baseaddr + segments[i].size)

\* list.sort(key=lambda seg: seg.baseaddr), a stable sort: each segment goes
\* behind the segments of the sorted part whose base is not above its own
RECURSIVE InsertByBase(_, _)
InsertByBase(sorted, seg) ==
    IF Len(sorted) = 0 THEN <<seg>>
    ELSE IF sorted[Len(sorted)].baseaddr <= seg.baseaddr THEN Append(sorted, seg)
    ELSE Append(InsertByBase(SubSeq(sorted, 1, Len(sorted) - 1), seg), sorted[Len(sorted)])

RECURSIVE SortByBase(_)
SortByBase(segments) ==
    IF Len(segments) = 0 THEN <<>>
    ELSE InsertByBase(SortByBase(SubSeq(segments, 1, Len(segments) - 1)),
                      segments[Len(segments)])

\* the intervals [base, base + size) of two segments share an address
Intersects(a, b) ==
    a.baseaddr < b.baseaddr + b.size /\ b.baseaddr < a.baseaddr + a.size

\* main() after the arguments were read.  pending holds the segments of the
\* input being merged that the inner loop has not taken yet; read (the
\* execution address of each input parsed), clash (a segment taken
\* intersected an accepted one) and handed (the execaddr given to the
\* builder) record what happened
NewMerge(noexec) ==
    [pc |-> "loop", noexec |-> noexec, start_addr |-> None, segments |-> <<>>,
     pending |-> <<>>, err |-> "", output |-> <<>>,
     read |-> <<>>, clash |-> FALSE, handed |-> None]

InitMerge ==
    /\ ParserIdle
    /\ rt = IdleRT
    /\ \E x \in BOOLEAN : mg = NewMerge(x)

MergeRaise(m, err) == [m EXCEPT !.pc = "error", !.err = err]

\* the head of the loop over the inputs, for the input of these lines: the
\* input is parsed and its execution address taken
MergeOpen(m, lines) ==
    LET parser == parse("ihex", lines, Options(0, 0, TopAddr, 16, TRUE))
        exec_addr == parser.exec_addr
        m1 == [m EXCEPT !.read = Append(m.read, exec_addr)]
    IN IF parser.status # "done" THEN MergeRaise(m, parser.err)
       ELSE IF ~ m.noexec /\ exec_addr # None
       THEN IF ExecConflict(m.start_addr, exec_addr)
            THEN MergeRaise(m1, "Several start up address are defined")
            ELSE [m1 EXCEPT !.start_addr = exec_addr, !.pending = parser.segments]
       ELSE [m1 EXCEPT !.pending = parser.segments]

\* one iteration of the loop over the input's segments
MergeTake(m) ==
    LET segment == Head(m.pending)
        m1 == [m EXCEPT !.clash = \E i \in 1..Len(m.segments) :
                                      Intersects(segment, m.segments[i])]
    IN IF SegmentOverride(segment, m.segments)
       THEN MergeRaise(m1, "Segment override")
       ELSE [m1 EXCEPT !.segments = SortByBase(Append(m.segments, segment)),
                       !.pending = Tail(m.pending)]

\* after the last input: the merged segments are built and written
MergeFinish(m) ==
    LET start_addr == IF m.noexec THEN None ELSE m.start_addr
        out == build("ihex", m.segments, start_addr, 0)
    IN IF ~ out.ok THEN MergeRaise([m EXCEPT !.handed = start_addr], out.err)
       ELSE [m EXCEPT !.pc = "done", !.handed = start_addr, !.output = out.lines]

MergeInput ==
    /\ mg.pc = "loop" /\ Len(mg.pending) = 0 /\ Len(mg.read) < MaxInputs
    /\ \E segs \in InputSegments, e \in InputExecs :
          mg' = MergeOpen(mg, InputLines(segs, e))
    /\ UNCHANGED <<parserVars, rt>>

MergeSegment ==
    /\ mg.pc = "loop" /\ Len(mg.pending) > 0
    /\ mg' = MergeTake(mg)
    /\ UNCHANGED <<parserVars, rt>>

\* the command line names at least one input
MergeBuild ==
    /\ mg.pc = "loop" /\ Len(mg.pending) = 0 /\ Len(mg.read) >= 1
    /\ mg' = MergeFinish(mg)
    /\ UNCHANGED <<parserVars, rt>>

NextMerge ==
    \/ MergeInput
    \/ MergeSegment
    \/ MergeBuild

SpecMerge == InitMerge /\ [][NextMerge]_vars

\* the accepted segments are in ascending order of base address and no two
\* of them share an address
SortedDisjoint(segments) ==
    \A i, j \in 1..Len(segments) :
        i < j => /\ segments[i].baseaddr <= segments[j].baseaddr
                 /\ ~ Intersects(segments[i], segments[j])

\* C6: when a newly parsed segment intersects a segment accepted before,
\* from the same or an earlier input, the merge ends with an error and
\* writes no output; the accumulated list is always in ascending order of
\* base address and pairwise disjoint.
OverlapDetection ==
    /\ mg.clash => (mg.pc = "error" /\ mg.output = <<>>)
    /\ SortedDisjoint(mg.segments)

\* C6 happens: the second input's segment intersected the first's
OverlapDetectionSeen ==
    /\ mg.clash /\ mg.pc = "error" /\ mg.err = "Segment override"
    /\ Len(mg.read) = 2 /\ Len(mg.segments) = 1

\* C6 happens: the third segment of one input intersected its first
OverlapDetectionSeenSameInput ==
    /\ mg.clash /\ mg.pc = "error" /\ Len(mg.read) = 1 /\ Len(mg.segments) = 2

\* C6 happens: segments of three inputs were accepted and sorted
OverlapDetectionSeenSorted ==
    /\ mg.pc = "done" /\ Len(mg.segments) = 3 /\ Len(mg.output) > 3
    /\ mg.segments[1].baseaddr = 4092

\* the execution addresses the inputs read so far define
DefinedExecs == {mg.read[i] : i \in 1..Len(mg.read)} \ {None}

\* C7: without --noexec, the merge ends with an error as soon as two
\* inputs define different execution addresses, and only then reports a
\* start-address conflict; a merge that completes hands the builder the one
\* address the inputs define, or none when no input defines one.
ExecConflictDetection ==
    ~ mg.noexec =>
        /\ Cardinality(DefinedExecs) >= 2
              => (mg.pc = "error" /\ mg.err = "Several start up address are defined")
        /\ mg.err = "Several start up address are defined"
              => Cardinality(DefinedExecs) >= 2
        /\ mg.pc = "done"
              => (IF DefinedExecs = {} THEN mg.handed = None
                  ELSE DefinedExecs = {mg.handed})

\* C7 happens: 0x8000 and 0x9000 ended the merge with the error
ExecConflictDetectionSeen ==
    /\ ~ mg.noexec /\ mg.read = <<Some(32768), Some(36864)>>
    /\ mg.pc = "error" /\ mg.err = "Several start up address are defined"

\* C7 happens: 0x8000 and no address, and 0x8000 twice, gave 0x8000
ExecConflictDetectionSeenOne ==
    /\ ~ mg.noexec /\ mg.read = <<Some(32768), None>>
    /\ mg.pc = "done" /\ mg.handed = Some(32768) /\ Len(mg.segments) = 2

ExecConflictDetectionSeenSame ==
    /\ ~ mg.noexec /\ mg.read = <<Some(32768), None, Some(32768)>>
    /\ mg.pc = "done" /\ mg.handed = Some(32768)

\* ------------------------------------------------------------------------
\* Properties of a parse: addresses, malformed lines, errors, end of file
\* ------------------------------------------------------------------------

\* the address offset the extended-address record read last stands for
ExtOffset ==
    IF ext.type = 4 THEN Shl(ext.value, 16)
    ELSE IF ext.type = 2 THEN Shl(ext.value, 4) ELSE 0

\* the address of the record read last as the source gives it: the address
\* field, for Intel HEX DATA records above the extended address
FileAddress == last.address + (IF fmt = "ihex" /\ last.kind = "data" THEN ExtOffset ELSE 0)

\* the line read last was a well-formed DATA record read before any
\* end-of-file record
DataRecordRead == last.kind = "data" /\ ~ last.corrupt /\ ~ last.aftereof

\* C11: with verification, a DATA record whose address is below min_addr or
\* above max_addr makes each parser (SRecParser, IHexParser, IHexFastParser,
\* TItxtParser) raise, so that no segment holds a byte of such a record.
AddressRange ==
    (/\ DataRecordRead /\ opts.verify
     /\ (FileAddress < opts.min_addr \/ FileAddress > opts.max_addr))
        => (lp.status = "error" /\ (fmt = "ihex" => fp.status = "error"))

\* C12: a non-empty line that is no well-formed record of the format (read
\* before any end-of-file record) makes each parser raise; none is passed
\* over while the parse goes on.
FailFast ==
    (last.kind = "malformed" /\ ~ last.aftereof)
        => (lp.status = "error" /\ (fmt = "ihex" => fp.status = "error"))

\* RecordParser.get_data_segments
get_data_segments(p) == p.segments

\* C13: after parse() raised, get_data_segments() returns no segment: the
\* segments read before the failing line are not retained.
NoPartialResult ==
    /\ lp.status = "error" => get_data_segments(lp) = <<>>
    /\ (fmt = "ihex" /\ fp.status = "error") => get_data_segments(fp) = <<>>

\* an end-of-file record (Intel HEX type 01, the TI-txt line 'q') has been
\* read, as the last line or before it
EOFRead == (last.kind = "eof" /\ ~ last.corrupt) \/ last.aftereof

\* C14: once the end-of-file record is read the scan is over: a line read
\* after it changes nothing in a parser, neither its segments nor its
\* execution address, and raises no error.
EOFTerminates ==
    [][(EOFRead /\ nfed' = nfed + 1)
          => (lp' = lp /\ (fmt = "ihex" => fp' = fp))]_vars

\* the parser's options do not reject address a
InRange(a) == ~ opts.verify \/ verify_address(a, opts)

\* C15: an Intel HEX type-05 record (start linear address) carrying the
\* 32-bit address E is accepted by IHexParser and by IHexFastParser as an
\* EXECUTE record: a parser that reads it (before any end-of-file record,
\* the options rejecting neither E nor the record's address field 0) goes
\* on, and its getexec() is E.
LinearStart ==
    [][(/\ fmt = "ihex" /\ nfed' = nfed + 1 /\ ~ EOFRead
        /\ last'.kind = "exec" /\ last'.type = 5 /\ ~ last'.corrupt
        /\ InRange(0) /\ InRange(last'.address))
          => (/\ lp.status = "run"
                    => (lp'.status = "run" /\ lp'.exec_addr = Some(last'.address))
              /\ fp.status = "run"
                    => (fp'.status = "run" /\ fp'.exec_addr = Some(last'.address)))]_vars

\* ------------------------------------------------------------------------
\* Properties of a build: the address fields
\* ------------------------------------------------------------------------

\* address a fits the address field of format f: 16 bits for TI-txt
\* '@XXXX', 32 bits for S3 records and Intel HEX 04+00 records
Fits(f, a) ==
    IF f = "titxt" THEN a < Pow2(16)
    ELSE (a \div Pow2(16)) < Pow2(16)

\* the addresses the lines of a segment stand for: base + offset + chunk
\* position
ChunkAddresses(segment, offset) ==
    {segment.baseaddr + offset + pos :
        pos \in {q \in 0..(Len(segment.buf) - 1) : q % CHUNK = 0}}

\* the builder was run on the segments of rt
BuildOver == rt.pc \in {"built", "raised", "parsed"} /\ Len(rt.lines) = 0

\* C16: a build of segments one address of which (base + offset + chunk
\* position) does not fit the address field of the format fails with an
\* error, and a build that succeeds emits no TI-txt address line wider than
\* '@' and four digits.
BuilderRejects ==
    BuildOver =>
        /\ (\E i \in 1..Len(rt.segs) :
               \E a \in ChunkAddresses(rt.segs[i], rt.offset) : ~ Fits(rt.fmt, a))
              => ~ rt.out.ok
        /\ (rt.fmt = "titxt" /\ rt.out.ok)
              => \A k \in 1..Len(rt.out.lines) :
                    rt.out.lines[k][1] = "@" => Len(rt.out.lines[k]) = 5

\* ------------------------------------------------------------------------
\* Properties of a parse: the segment gap
\* ------------------------------------------------------------------------

\* parser p, its segment open, reads a well-formed DATA record next and
\* accepts it, becoming q
DataStep(p, q) ==
    /\ nfed' = nfed + 1
    /\ last'.kind = "data" /\ ~ last'.corrupt
    /\ p.status = "run" /\ ~ p.stopped /\ p.seg.open
    /\ q.status = "run"

\* the address parser p writes the record read next at: the address field,
\* above the extended address p holds, less the offset option
WriteAddress(p) == last'.address + p.offset_addr - opts.offset

\* q is p after it closed its open segment and opened one at address a
\* for the record read
ClosedAt(p, q, a) ==
    /\ q.segments = IF p.seg.size # 0 THEN Append(p.segments, p.seg) ELSE p.segments
    /\ q.seg.open /\ q.seg.baseaddr = a /\ q.seg.buf = last'.data

\* q is p after it wrote the record read into its open segment, up to a
\* plus the payload
CoalescedAt(p, q, a) ==
    /\ q.segments = p.segments
    /\ q.seg.open /\ q.seg.baseaddr = p.seg.baseaddr
    /\ absaddr(q.seg) = a + Len(last'.data)

\* the original reading of the threshold: farther than segment_gap
GapFarther(p, q) ==
    (DataStep(p, q) /\ WriteAddress(p) >= absaddr(p.seg))
        => IF WriteAddress(p) - absaddr(p.seg) > opts.gap
           THEN ClosedAt(p, q, WriteAddress(p))
           ELSE CoalescedAt(p, q, WriteAddress(p))

\* the threshold of the code: segment_gap or farther
GapReached(p, q) ==
    (DataStep(p, q) /\ WriteAddress(p) >= absaddr(p.seg))
        => IF WriteAddress(p) - absaddr(p.seg) >= opts.gap
           THEN ClosedAt(p, q, WriteAddress(p))
           ELSE CoalescedAt(p, q, WriteAddress(p))

\* C17 as stated: with an open segment ending at E, a DATA record at
\* A >= E closes the segment and starts a new one exactly when
\* A - E > segment_gap; a hole of exactly segment_gap is coalesced.
GapThresholdFarther ==
    [][GapFarther(lp, lp') /\ (fmt = "ihex" => GapFarther(fp, fp'))]_vars

\* C17: with an open segment ending at E, a DATA record at A >= E closes
\* the segment and starts a new one at A exactly when A - E >= segment_gap
\* (a hole of exactly segment_gap splits); a nearer record is written into
\* the open segment.
GapThreshold ==
    [][GapReached(lp, lp') /\ (fmt = "ihex" => GapReached(fp, fp'))]_vars

\* a record exactly segment_gap beyond the end of the open segment was
\* read, and started a second segment
GapThresholdSeen ==
    /\ phase = "feed" /\ nfed = 2 /\ last.kind = "data" /\ ~ last.aftereof
    /\ lp.status = "run" /\ Len(lp.segments) = 1
    /\ lp.seg.open /\ lp.seg.baseaddr - absaddr(lp.segments[1]) = opts.gap
    /\ fmt = "ihex" => (Len(fp.segments) = 1 /\ fp.seg.baseaddr = lp.seg.baseaddr)

\* a record nearer than segment_gap beyond the end of the open segment was
\* read, and written into the open segment over a hole
GapThresholdSeenNear ==
    /\ phase = "feed" /\ nfed = 2 /\ last.kind = "data" /\ ~ last.aftereof
    /\ lp.status = "run" /\ Len(lp.segments) = 0
    /\ lp.seg.open /\ lp.seg.size = 5 /\ lp.seg.buf = <<34, 51, 0, 0, 17>>

\* parser p, its segment open, reads next a well-formed DATA record the
\* address of which its options accept
DataNext(p) ==
    /\ nfed' = nfed + 1
    /\ last'.kind = "data" /\ ~ last'.corrupt
    /\ p.status = "run" /\ ~ p.stopped /\ p.seg.open
    /\ verify_address(WriteAddress(p) + opts.offset, opts)

\* a record below the end of the open segment of p makes p close the
\* segment and open one at the record's address, and does not make p raise
Reopened(p, q) ==
    (DataNext(p) /\ WriteAddress(p) < absaddr(p.seg))
        => (q.status = "run" /\ ClosedAt(p, q, WriteAddress(p)))

\* C18: a DATA record whose address is lower than the end of the open
\* segment (before its start included) closes the open segment and opens a
\* new one at the record's address: no byte of the open segment is
\* overwritten in place, and the parse does not raise.
NegativeGap ==
    [][Reopened(lp, lp') /\ (fmt = "ihex" => Reopened(fp, fp'))]_vars

\* ------------------------------------------------------------------------
\* Properties of a parse: checksums of every record type
\* ------------------------------------------------------------------------

\* the line read next is an Intel HEX or S-Record record of some type whose
\* checksum is not the one computed from its fields, read with verification
BadChecksumNext ==
    /\ nfed' = nfed + 1
    /\ opts.verify
    /\ last'.corrupt /\ last'.kind \in {"data", "ext", "exec", "eof"}

\* parser p, running, raised and kept everything else as it was
Aborted(p, q) ==
    (p.status = "run" /\ ~ p.stopped)
        => (q.status = "error" /\ [q EXCEPT !.status = p.status, !.err = p.err] = p)

\* C19: with verification, a record of any type (DATA, extended segment or
\* linear address 02/04, EXECUTE, EOF) whose checksum differs from the
\* recomputed one makes the parser raise before the record changes the
\* address offset, the segments or the execution address.
EveryChecksum ==
    [][BadChecksumNext => (Aborted(lp, lp') /\ (fmt = "ihex" => Aborted(fp, fp')))]_vars

\* ------------------------------------------------------------------------
\* Properties of a merge: disjoint segments
\* ------------------------------------------------------------------------

\* C20: the merge accepts every set of segments whose intervals
\* [base, end) are pairwise disjoint, exactly adjacent ones included, in
\* whatever order they arrive: it raises 'Segment override' only for a
\* segment whose interval shares an address with an accepted one.
MergeAcceptsDisjoint ==
    (mg.pc = "error" /\ mg.err = "Segment override") => mg.clash

\* ------------------------------------------------------------------------
\* Properties of a build: the records of the output
\* ------------------------------------------------------------------------

\* the fields of a line of Intel HEX output: ':LLAAAATT<payload>CC'
OutType(line) == int16(SubSeq(line, 8, 9)).v
OutAddress(line) == int16(SubSeq(line, 4, 7)).v
OutPayload(line) == unhexlify(SubSeq(line, 10, Len(line) - 2)).bytes

\* the chunks of a segment list in build order: segment number, chunk
\* position and the address offset + segment base + chunk position
RECURSIVE ChunksFrom(_, _, _, _)
ChunksFrom(segs, offset, i, pos) ==
    IF i > Len(segs) THEN <<>>
    ELSE IF pos >= Len(segs[i].buf) THEN ChunksFrom(segs, offset, i + 1, 0)
    ELSE <<[seg |-> i, pos |-> pos, address |-> offset + segs[i].baseaddr + pos]>>
         \o ChunksFrom(segs, offset, i, pos + CHUNK)

Chunks(segs, offset) == ChunksFrom(segs, offset, 1, 0)

\* the numbers of the lines of record type t, in order
RECURSIVE LinesOfType(_, _, _)
LinesOfType(lines, t, j) ==
    IF j > Len(lines) THEN <<>>
    ELSE (IF OutType(lines[j]) = t THEN <<j>> ELSE <<>>) \o LinesOfType(lines, t, j + 1)

\* IHexBuilder built the list of rt without an error
IHexBuilt ==
    /\ rt.fmt = "ihex" /\ Len(rt.lines) = 0
    /\ rt.pc \in {"built", "parsed"} /\ rt.out.ok

\* C21: in the output of IHexBuilder every data record follows a type-04
\* record written since the start of its segment, a type-04 record stands
\* right before each data record whose upper 16 address bits differ from
\* the previous chunk's, and the most recent type-04 value shifted left 16
\* plus the record's address field is offset + segment base + chunk
\* position.
IHexAddressExtension ==
    IHexBuilt =>
        LET L == rt.out.lines
            D == LinesOfType(L, 0, 1)
            C == Chunks(rt.segs, rt.offset)
            \* the last line of the segments before chunk k's
            Before(k) == IF \E h \in 1..(k - 1) : C[h].seg # C[k].seg
                         THEN D[CHOOSE h \in 1..(k - 1) :
                                  /\ C[h].seg # C[k].seg
                                  /\ \A g \in (h + 1)..(k - 1) : C[g].seg = C[k].seg]
                         ELSE 0
            Ext(k) == {h \in (Before(k) + 1)..(D[k] - 1) : OutType(L[h]) = 4}
            Recent(k) == CHOOSE h \in Ext(k) : \A g \in Ext(k) : g <= h
        IN /\ Len(D) = Len(C)
           /\ \A k \in 1..Len(D) :
                 /\ Ext(k) # {}
                 /\ Shl(DigitsVal(hexlify(OutPayload(L[Recent(k)])), 16), 16)
                        + OutAddress(L[D[k]]) = C[k].address
                 /\ (/\ k > 1 /\ C[k - 1].seg = C[k].seg
                     /\ Shr(C[k - 1].address, 16) # Shr(C[k].address, 16))
                       => OutType(L[D[k] - 1]) = 4

\* IHexBuilder built a segment the second chunk of which begins at 0x10000:
\* a type-04 record of value 0, 16 bytes at FFF0, a type-04 record of value
\* 1 and a byte at 0000
IHexAddressExtensionSeen ==
    /\ IHexBuilt /\ rt.pc = "built" /\ rt.offset = 0
    /\ Len(rt.segs) = 1 /\ rt.segs[1].baseaddr = 65520
    /\ LinesOfType(rt.out.lines, 4, 1) = <<1, 3>>
    /\ LinesOfType(rt.out.lines, 0, 1) = <<2, 4>>
    /\ OutPayload(rt.out.lines[3]) = <<0, 1>>
    /\ OutAddress(rt.out.lines[4]) = 0

\* the S-Record data record type for a segment: by its end address
SRecDataType(segment) ==
    IF segment.baseaddr + Len(segment.buf) < Pow2(16) THEN 1
    ELSE IF segment.baseaddr + Len(segment.buf) < Pow2(24) THEN 2 ELSE 3

\* a line of S-Record output of data type t holding n payload bytes: the
\* marker, the type, a byte count of address bytes + payload + 1 and as
\* many bytes as the count tells
SRecShaped(line, t, n) ==
    /\ Len(line) >= 4
    /\ line[1] = "S" /\ HexVal(line[2]) = t
    /\ int16(SubSeq(line, 3, 4)).v = (t + 1) + n + 1
    /\ Len(line) = 4 + 2 * ((t + 1) + n + 1)

\* SRecBuilder was run on the list of rt
SRecBuildOver ==
    /\ rt.fmt = "srec" /\ Len(rt.lines) = 0 /\ Len(rt.segs) > 0
    /\ rt.pc \in {"built", "raised", "parsed"}

\* C22: SRecBuilder emits the data records of a segment as S1 when the
\* segment ends below 2^16, S2 below 2^24, S3 otherwise; each line's byte
\* count is address bytes + payload bytes + 1 and its address field has
\* the 2, 3 or 4 bytes of its type.
SRecTypeSelection ==
    SRecBuildOver =>
        LET L == rt.out.lines
            C == Chunks(rt.segs, rt.offset)
        IN /\ rt.out.ok
           /\ Len(L) >= Len(C)
           /\ \A k \in 1..Len(C) :
                 SRecShaped(L[k], SRecDataType(rt.segs[C[k].seg]),
                            Min(CHUNK, Len(rt.segs[C[k].seg].buf) - C[k].pos))

NotBlank(c) == c # " "

\* the payloads of the data records or data lines of an output, in order:
\* Intel HEX type-00 records, S1/S2/S3 records, the TI-txt lines that are
\* neither an '@' address nor 'q'
RECURSIVE Payloads(_, _)
Payloads(f, lines) ==
    IF Len(lines) = 0 THEN <<>>
    ELSE LET l == lines[1]
             here ==
               IF f = "ihex"
               THEN IF Len(l) >= 11 /\ OutType(l) = 0 THEN <<OutPayload(l)>> ELSE <<>>
               ELSE IF f = "srec"
               THEN IF Len(l) >= 4 /\ HexVal(l[2]) \in {1, 2, 3}
                    THEN <<unhexlify(SubSeq(l, 5 + 2 * (HexVal(l[2]) + 1), Len(l) - 2)).bytes>>
                    ELSE <<>>
               ELSE IF Len(l) = 0 \/ l[1] = "@" \/ upper(l) = <<"Q">> THEN <<>>
                    ELSE <<unhexlify(SelectSeq(l, NotBlank)).bytes>>
         IN here \o Payloads(f, Tail(lines))

\* the builder of format f, run on a list of non-empty segments, emits for
\* each segment its bytes in chunks of 16, the last chunk holding the rest
FixedChunkingOf(f) ==
    (BuildOver /\ rt.fmt = f /\ Len(rt.segs) > 0) =>
        LET P == Payloads(f, rt.out.lines)
            C == Chunks(rt.segs, rt.offset)
        IN /\ rt.out.ok
           /\ Len(P) = Len(C)
           /\ \A k \in 1..Len(C) :
                 P[k] = PySlice(rt.segs[C[k].seg].buf, C[k].pos, C[k].pos + CHUNK)

\* C23: for each of the three builders and every segment, each data record
\* or line carries at most 16 payload bytes, every one but the segment's
\* last exactly 16, and the payloads in emission order make up the
\* segment's bytes.
FixedChunking ==
    FixedChunkingOf("ihex") /\ FixedChunkingOf("srec") /\ FixedChunkingOf("titxt")

\* ------------------------------------------------------------------------
\* Properties of a parse: the segments
\* ------------------------------------------------------------------------

\* RecordSegment.data: the content of the buffer
SegData(seg) == seg.buf

\* the size of a segment is the length of its data
Sized(seg) == seg.size = Len(SegData(seg))

\* the open segment and the stored segments of parser p
SegmentsOf(p) ==
    {p.segments[i] : i \in 1..Len(p.segments)} \cup (IF p.seg.open THEN {p.seg} ELSE {})

\* C24: after the writes a parser made into a segment (contiguous, forward
\* within the gap, backward within it) the segment's size is the length of
\* its data, so that its end address is base address + len(data).
SegmentSize ==
    /\ \A seg \in SegmentsOf(lp) : Sized(seg)
    /\ fmt = "ihex" => \A seg \in SegmentsOf(fp) : Sized(seg)

\* parser p reads next a DATA record that it writes into its open segment
\* at an address other than the segment's end: the record lies nearer than
\* segment_gap to the end, beyond it or before it
WriteElsewhere(p) ==
    /\ DataNext(p)
    /\ WriteAddress(p) # absaddr(p.seg)
    /\ Abs(WriteAddress(p) - absaddr(p.seg)) < opts.gap

\* q is p after the record read was appended to the data of its segment
Appended(p, q) ==
    /\ q.status = "run"
    /\ SegData(q.seg) = SegData(p.seg) \o last'.data
    /\ q.seg.size = p.seg.size + Len(last'.data)

\* C25: a write at an explicit address other than base address +
\* size leaves the segment's bytes as the previous bytes followed by the
\* data, and the size grown by len(data).
WriteAppends ==
    [][/\ WriteElsewhere(lp) => Appended(lp, lp')
       /\ (fmt = "ihex" /\ WriteElsewhere(fp)) => Appended(fp, fp')]_vars

\* from p to q the list of stored segments was left as it was, or the
\* segment that was open was put at its end
OnlyAppended(p, q) ==
    \/ q.segments = p.segments
    \/ p.seg.open /\ q.segments = Append(p.segments, p.seg)

\* C26: a segment the parser has stored is not changed by a later record
\* (base address, size, bytes), the list is only appended to, and it holds
\* the segments in the order they were opened: a step either leaves the
\* list as it is or puts the segment that was open at its end.
ClosedFrozen ==
    [][OnlyAppended(lp, lp') /\ (fmt = "ihex" => OnlyAppended(fp, fp'))]_vars

\* a third record was read after a first segment had been stored and a
\* second opened; the list then holds both, the older first
ClosedFrozenSeen ==
    /\ phase = "end" /\ nfed = 3 /\ last.kind = "data"
    /\ lp.status = "done" /\ Len(lp.segments) = 2
    /\ lp.segments[1].baseaddr > lp.segments[2].baseaddr
    /\ SegData(lp.segments[2]) = <<17>>

\* ------------------------------------------------------------------------
\* Properties of a parse: the end of the source
\* ------------------------------------------------------------------------

\* the records of the stream have strictly increasing addresses and do not
\* overlap
Increasing(recs) ==
    \A i \in 1..(Len(recs) - 1) :
        /\ recs[i].baseaddr < recs[i + 1].baseaddr
        /\ recs[i].baseaddr + Len(SegData(recs[i])) <= recs[i + 1].baseaddr

\* segment seg holds byte b at address a
Holds(seg, a, b) ==
    /\ seg.baseaddr <= a /\ a < seg.baseaddr + seg.size
    /\ a - seg.baseaddr < Len(SegData(seg))
    /\ SegData(seg)[a - seg.baseaddr + 1] = b

\* C27: after a parse that ended normally no segment is open, every
\* segment of the result has a size above 0, and each payload byte of a
\* stream of DATA records with strictly increasing, non-overlapping
\* addresses is held at its address by exactly one segment of the result.
FinalFlush ==
    rt.pc = "flushed" =>
        LET S == get_data_segments(rt.res)
        IN /\ ~ rt.res.seg.open
           /\ \A i \in 1..Len(S) : S[i].size > 0
           /\ Increasing(rt.segs) =>
                 \A r \in 1..Len(rt.segs) : \A j \in 1..Len(SegData(rt.segs[r])) :
                    Cardinality({i \in 1..Len(S) :
                        Holds(S[i], rt.segs[r].baseaddr + j - 1, SegData(rt.segs[r])[j])}) = 1

\* a stream of three records at increasing addresses was parsed into two
\* segments: the second record fell into the first segment over a hole, the
\* third began a segment of its own
FinalFlushSeen ==
    /\ rt.pc = "flushed" /\ Len(rt.segs) = 3 /\ Increasing(rt.segs)
    /\ Len(rt.res.segments) = 2
    /\ SegData(rt.res.segments[1]) = <<34, 51, 0, 0, 17>>
    /\ rt.res.segments[2].baseaddr = 274

\* ------------------------------------------------------------------------
\* Properties of a parse: the address range and the records without data
\* ------------------------------------------------------------------------

\* parser p reads next a well-formed record that is no DATA record: an
\* extended address record (02, 04), an EXECUTE record (03, S7, S8, S9) or
\* an end-of-file record
NonDataNext(p) ==
    /\ nfed' = nfed + 1
    /\ last'.kind \in {"ext", "exec", "eof"} /\ ~ last'.corrupt
    /\ last'.type # 5
    /\ p.status = "run" /\ ~ p.stopped

\* C28: the address range is checked on DATA records only: a record that
\* is no DATA record (S7/S8/S9, Intel HEX types 01, 02, 03, 04) is not
\* rejected, whatever min_addr and max_addr are and wherever its address
\* field lies.
DataOnlyRange ==
    [][/\ NonDataNext(lp) => lp'.status = "run"
       /\ (fmt = "ihex" /\ NonDataNext(fp)) => fp'.status = "run"]_vars

\* ------------------------------------------------------------------------
\* Properties of a merge: the execution address
\* ------------------------------------------------------------------------

\* getexec() of an IHexParser that parsed the lines with default options
ExecOf(lines) == parse("ihex", lines, Options(0, 0, TopAddr, 16, TRUE)).exec_addr

\* C29: the output IHexBuilder builds with execaddr=E, parsed by
\* IHexParser, gives getexec() = E: the output of a merge that handed the
\* execution address E to the builder reads back with that address.
ExecRoundTrip ==
    (mg.pc = "done" /\ mg.handed # None) => ExecOf(mg.output) = mg.handed

\* ------------------------------------------------------------------------
\* Properties of a parse: holes below the gap
\* ------------------------------------------------------------------------

\* the bytes between the end of the open segment of p and the DATA record
\* read next
Hole(p) == WriteAddress(p) - absaddr(p.seg)

\* q is p after the record read next, g bytes beyond the end of the open
\* segment, was merged into it: the size grown by g and the payload, the
\* bytes held before unchanged, g bytes of 0 and then the payload, at
\* offset address - base
ZeroFilled(p, q, g) ==
    LET old == SegData(p.seg)
        new == SegData(q.seg)
        end == p.seg.size
        n == Len(last'.data)
    IN /\ q.status = "run" /\ q.segments = p.segments
       /\ q.seg.open /\ q.seg.baseaddr = p.seg.baseaddr
       /\ q.seg.size = p.seg.size + g + n
       /\ Len(new) >= end + g + n
       /\ \A i \in 1..Min(end, Len(old)) : new[i] = old[i]
       /\ \A i \in (end + 1)..(end + g) : new[i] = 0
       /\ \A j \in 1..n : new[WriteAddress(p) - p.seg.baseaddr + j] = last'.data[j]

\* a record g bytes beyond the end of the open segment of p, 0 < g <
\* segment_gap, is merged into it over g bytes of 0
HoleFilled(p, q) ==
    (DataNext(p) /\ 0 < Hole(p) /\ Hole(p) < opts.gap) => ZeroFilled(p, q, Hole(p))

\* C30: a DATA record of n bytes that starts g bytes beyond the end of the
\* open segment, 0 < g < segment_gap, is merged into the segment: the size
\* grows by g + n, the g skipped addresses read 0x00 in the segment's data,
\* the payload stands at offset address - base, and the bytes stored
\* before the hole are unchanged.
ZeroFill ==
    [][HoleFilled(lp, lp') /\ (fmt = "ihex" => HoleFilled(fp, fp'))]_vars

====
